---- MODULE Spec2Model ----
(***************************************************************************)
(* Model of the violin fingering pipeline of backend/fingering:            *)
(* engine.compute_fingering -> ViolinFingeringSolver.solve -> flattened    *)
(* output, and of the score parser omr/musicxml_parser.py that produces    *)
(* the event lists upstream of it.                                         *)
(*                                                                         *)
(* Numbers.  The code computes costs in doubles; every default cost is a   *)
(* multiple of 0.001, so the model keeps costs as integers in units of     *)
(* 1/1000 (0.30 is 300).  Beats are kept in units of 1/1000 beat, seconds  *)
(* in milliseconds, and the long-rest multiplier in percent (0.10 is 10);  *)
(* all products the code forms are then exact integers.  The timing        *)
(* parameters, which the code computes with and never reads back, are kept *)
(* in coarser units so that 1e-6 semitones per second fits: speeds in      *)
(* 1/1000000 semitone per second, required and available times in 1/10 s.  *)
(* Where two paths                                                         *)
(* cost exactly the same, rounding of the doubles may make the code pick   *)
(* the other one; totals agree, and no property below depends on which of  *)
(* two equally cheap paths is emitted.                                     *)
(***************************************************************************)
EXTENDS Integers, Sequences, FiniteSets, TLC

VARIABLES
    payload,        \* the "events" value of the request, before coerce_events
    p,              \* ViolinFingeringParams of the solver (self.p)
    in_events,      \* compute_fingering's argument: list of Event records
    pc,             \* position inside api_finger / compute_fingering / solve
    err,            \* "none", or the kind of the error raised
    err_note,       \* <<n>> when the error message names the note record n
    events,         \* tuple_events handed to solve()
    notes,          \* result of _parse_events
    states_per_note,\* one list of State per note
    i,              \* index of the layer being relaxed (0-based, as in the code)
    j,              \* position in dp_prev.items() of the next prev_key (1-based)
    dp_prev,        \* insertion-ordered dict DPKey -> cost
    dp_cur,         \* insertion-ordered dict DPKey -> cost of the layer in progress
    back_cur,       \* dict DPKey -> predecessor of the layer in progress
    backptr,        \* list of predecessor dicts, one per finished layer
    total_cost,     \* dp_prev[end_key]
    path_keys,      \* reconstructed DPKey path
    result,         \* dict returned by solve()
    flattened,      \* list returned by compute_fingering
    part,           \* _parse_part: the measures and note elements of the part, in order
    el,             \* _parse_part: 1-based position in part of the next item
    divisions,      \* _parse_part: divisions in force
    tie_active,     \* _parse_part: a tie is being accumulated
    tie_note,       \* _parse_part: note name of the tie, <<>> for None
    tie_beats_accum,\* _parse_part: beats accumulated for the tie
    part_events,    \* _parse_part: the list events
    pitch_el,       \* step, alter and octave of a <pitch> element
    note_name,      \* <<name>> once _pitch_to_note has returned
    midi_solver,    \* <<n>> once violin_solver.note_to_midi has returned
    midi_utils      \* <<n>> once utils.note_to_midi has returned

\* the variables of _parse_part
score_vars == <<part, el, divisions, tie_active, tie_note, tie_beats_accum, part_events>>

\* the variables of the note-name conversions
name_vars == <<pitch_el, note_name, midi_solver, midi_utils>>

\* the variables of api_finger, compute_fingering and solve
solver_vars == <<payload, p, in_events, err, err_note, events, notes, states_per_note, i, j,
                 dp_prev, dp_cur, back_cur, backptr, total_cost, path_keys, result,
                 flattened>>

vars == <<payload, p, in_events, pc, err, err_note, events, notes, states_per_note, i, j,
          dp_prev, dp_cur, back_cur, backptr, total_cost, path_keys, result,
          flattened, score_vars, name_vars>>

-----------------------------------------------------------------------------
(* Bounds of the model *)

MaxEvents == 3

-----------------------------------------------------------------------------
(* Small helpers *)

Abs(x) == IF x < 0 THEN -x ELSE x

Max2(a, b) == IF a >= b THEN a ELSE b

Range(s) == {s[k] : k \in 1..Len(s)}

RECURSIVE Concat(_)
Concat(ss) == IF ss = <<>> THEN <<>> ELSE ss[1] \o Concat(Tail(ss))

-----------------------------------------------------------------------------
(* Pitch parsing *)

NOTE_BASE(letter) ==
    CASE letter = "C" -> 0
      [] letter = "D" -> 2
      [] letter = "E" -> 4
      [] letter = "F" -> 5
      [] letter = "G" -> 7
      [] letter = "A" -> 9
      [] letter = "B" -> 11

Letters == {"A", "B", "C", "D", "E", "F", "G"}

\* A note name is the text letter, accidentals, octave; the model keeps the
\* three groups of the regular expression apart.
Note(letter, acc, octave) == [letter |-> letter, acc |-> acc, octave |-> octave]

\* re.fullmatch(r"([A-Ga-g])([#b]{0,2})(-?\d+)", s)
NoteFormatOk(name) ==
    /\ name.letter \in Letters
    /\ Len(name.acc) <= 2
    /\ \A k \in 1..Len(name.acc) : name.acc[k] \in {"#", "b"}

RECURSIVE AccSum(_)
AccSum(acc) ==
    IF acc = <<>> THEN 0
    ELSE (IF acc[1] = "#" THEN 1 ELSE -1) + AccSum(Tail(acc))

note_to_midi(name) ==
    12 * (name.octave + 1) + ((NOTE_BASE(name.letter) + AccSum(name.acc)) % 12)

\* note_to_midi of fingering/utils.py: no reduction modulo 12
utils_note_to_midi(name) ==
    12 * (name.octave + 1) + NOTE_BASE(name.letter) + AccSum(name.acc)

\* step.upper() on a letter name
UpperStep(step) ==
    CASE step = "a" -> "A"
      [] step = "b" -> "B"
      [] step = "c" -> "C"
      [] step = "d" -> "D"
      [] step = "e" -> "E"
      [] step = "f" -> "F"
      [] step = "g" -> "G"
      [] OTHER -> step

\* ch * n of Python: n copies of ch
Times(ch, n) == [k \in 1..n |-> ch]

\* _pitch_to_note (musicxml_parser.py lines 24-34); alter is <<>> for None
pitch_to_note(step, alter, octave) ==
    LET acc == IF alter = <<1>> THEN <<"#">>
               ELSE IF alter = <<-1>> THEN <<"b">>
               ELSE IF alter # <<>> /\ alter[1] # 0
               THEN IF alter[1] > 0 THEN Times("#", alter[1]) ELSE Times("b", -alter[1])
               ELSE <<>>
    IN Note(UpperStep(step), acc, octave)

-----------------------------------------------------------------------------
(* Tuning *)

OPEN_MIDIS == <<55, 62, 69, 76>>

STRING_NAMES == <<"G", "D", "A", "E">>

-----------------------------------------------------------------------------
(* Parameters *)

DefaultParams(bpm) ==
    [ bpm |-> bpm,
      max_stop_semitones |-> 29,
      max_anchor |-> 29,
      finger2_offsets |-> <<1, 2>>,
      finger3_offsets |-> <<3, 4>>,
      finger4_offsets |-> <<5, 6>>,
      shift_speed_semitones_per_sec |-> 0,
      adjacent_string_cross_time_sec |-> 0,
      skip_string_cross_time_sec |-> 0,
      time_slack_sec |-> 0,
      open_string_shift_speed_multiplier |-> 170,
      rest_shift_speed_multiplier |-> 140,
      shift_event_cost |-> 300,
      shift_cost_per_semitone |-> 20,
      adjacent_string_cross_cost |-> 200,
      skip_string_cross_cost |-> 1000,
      anchor_linear_cost |-> 0,
      anchor_quadratic_cost |-> 0,
      stop_cost_per_semitone |-> 10,
      finger_change_cost |-> 80,
      same_finger_repeat_penalty |-> 500,
      same_finger_repeat_cross_string_same_place_penalty |-> 100,
      shape_change_cost_per_semitone |-> 200,
      used_finger_retarget_cost_per_semitone |-> 120,
      finger_base_cost |-> [f \in 0..4 |-> <<0, 0, 30, 60, 100>>[f + 1]],
      preferred_finger_by_delta |-> [d \in 0..7 |-> <<1, 2, 2, 3, 3, 4, 4, 4>>[d + 1]],
      preferred_finger_bonus |-> -200,
      nonpreferred_finger_penalty |-> 1000,
      open_string_note_cost |-> 100,
      unsettled_shift_penalty |-> 350,
      settled_shift_bonus |-> 0,
      long_rest_threshold_sec |-> 2000,
      long_rest_shift_multiplier |-> 10,
      min_shift_event_cost_after_long_rest |-> 20 ]

HandShape(o2, o3, o4) == [o2 |-> o2, o3 |-> o3, o4 |-> o4]

\* itertools.product(finger2_offsets, finger3_offsets, finger4_offsets), in order
Shapes(pp) ==
    LET a == pp.finger2_offsets
        b == pp.finger3_offsets
        c == pp.finger4_offsets
        n == Len(a) * Len(b) * Len(c)
    IN [k \in 1..n |->
            HandShape(a[((k - 1) \div (Len(b) * Len(c))) + 1],
                      b[(((k - 1) \div Len(c)) % Len(b)) + 1],
                      c[((k - 1) % Len(c)) + 1])]

-----------------------------------------------------------------------------
(* States *)

State(s_idx, anchor, shape, finger, stop, pitch_midi) ==
    [string_idx |-> s_idx, anchor |-> anchor, shape |-> shape, finger |-> finger,
     stop |-> stop, pitch_midi |-> pitch_midi]

DPKey(st, settled, last_o2, last_o3, last_o4) ==
    [state |-> st, settled |-> settled, last_o2 |-> last_o2, last_o3 |-> last_o3,
     last_o4 |-> last_o4]

\* key = (s_idx, anchor, shape, finger); "if key not in seen: states.append(...)"
SeenKey(st) == <<st.string_idx, st.anchor, st.shape, st.finger>>

\* AppendUnseen without the seen set
AppendAlways(states, st) == Append(states, st)

AppendUnseen(states, st) ==
    IF \E k \in 1..Len(states) : SeenKey(states[k]) = SeenKey(st)
    THEN states
    ELSE Append(states, st)

\* FingeredCandidates without the upper bound max_anchor on the anchor
FingeredCandidatesNoMaxAnchor(pp, s_idx, stop, pitch_midi, shape) ==
    LET cand(f, anchor) ==
            IF 1 <= anchor
            THEN <<State(s_idx, anchor, shape, f, stop, pitch_midi)>>
            ELSE <<>>
    IN cand(1, stop) \o cand(2, stop - shape.o2) \o cand(3, stop - shape.o3)
         \o cand(4, stop - shape.o4)

\* The four fingered candidates of one shape on one string (lines 232-263)
FingeredCandidates(pp, s_idx, stop, pitch_midi, shape) ==
    LET cand(f, anchor) ==
            IF 1 <= anchor /\ anchor <= pp.max_anchor
            THEN <<State(s_idx, anchor, shape, f, stop, pitch_midi)>>
            ELSE <<>>
    IN cand(1, stop) \o cand(2, stop - shape.o2) \o cand(3, stop - shape.o3)
         \o cand(4, stop - shape.o4)

\* The open-string candidates of one shape: one per anchor 0..max_anchor
OpenCandidates(pp, s_idx, stop, pitch_midi, shape) ==
    [a \in 1..(pp.max_anchor + 1) |-> State(s_idx, a - 1, shape, 0, stop, pitch_midi)]

\* Candidates of one string, in the order the loops produce them
StringCandidates(pp, s_idx, pitch_midi) ==
    LET stop == pitch_midi - OPEN_MIDIS[s_idx + 1]
        shapes == Shapes(pp)
    IN IF stop < 0 \/ stop > pp.max_stop_semitones THEN <<>>
       ELSE IF stop = 0
            THEN Concat([k \in 1..Len(shapes) |->
                            OpenCandidates(pp, s_idx, stop, pitch_midi, shapes[k])])
            ELSE Concat([k \in 1..Len(shapes) |->
                            FingeredCandidates(pp, s_idx, stop, pitch_midi, shapes[k])])

\* The loops below run over lists of a few hundred items.  Each is written as
\* a left-to-right fold over the index range lo..hi that splits the range in
\* two halves: the items are visited in list order, as in the code.  The test
\* on the result of the first half makes the evaluation finish that half before
\* it starts the second one.

RECURSIVE AppendAllUnseen(_, _, _, _)
AppendAllUnseen(states, cands, lo, hi) ==
    IF lo > hi THEN states
    ELSE IF lo = hi THEN AppendUnseen(states, cands[lo])
    ELSE LET mid == (lo + hi) \div 2
             first == AppendAllUnseen(states, cands, lo, mid)
         IN IF Len(first) >= 0
            THEN AppendAllUnseen(first, cands, mid + 1, hi)
            ELSE first

states_for_pitch(pp, pitch_midi) ==
    LET cands == Concat([s \in 1..4 |-> StringCandidates(pp, s - 1, pitch_midi)])
    IN AppendAllUnseen(<<>>, cands, 1, Len(cands))

-----------------------------------------------------------------------------
(* Costs *)

finger_preference_cost(pp, finger, delta) ==
    IF finger = 0 THEN 0
    ELSE IF delta \notin DOMAIN pp.preferred_finger_by_delta THEN 0
    ELSE IF finger = pp.preferred_finger_by_delta[delta]
         THEN pp.preferred_finger_bonus
         ELSE pp.nonpreferred_finger_penalty

note_cost(pp, st) ==
    IF st.finger = 0 /\ st.stop = 0
    THEN pp.open_string_note_cost
    ELSE st.anchor * pp.anchor_linear_cost
         + (st.anchor * st.anchor) * pp.anchor_quadratic_cost
         + st.stop * pp.stop_cost_per_semitone
         + (IF st.finger \in DOMAIN pp.finger_base_cost
            THEN pp.finger_base_cost[st.finger] ELSE 0)
         + finger_preference_cost(pp, st.finger, st.stop - st.anchor)

is_anchor_note(st) == st.finger = 1 /\ (st.stop - st.anchor) = 0

offset_for_finger(shape, finger) ==
    IF finger \in {0, 1} THEN 0
    ELSE IF finger = 2 THEN shape.o2
    ELSE IF finger = 3 THEN shape.o3
    ELSE IF finger = 4 THEN shape.o4
    ELSE 0

\* shift_mult without the long-rest discount
shift_mult_never_long(pp, rest_after_prev_beats) == 100

\* shift_mult with the comparison turned round: the discount on short rests
shift_mult_reversed(pp, rest_after_prev_beats) ==
    IF rest_after_prev_beats * 60 < pp.long_rest_threshold_sec * pp.bpm
    THEN pp.long_rest_shift_multiplier
    ELSE 100

\* shift_mult in percent: long_rest_shift_multiplier when
\* rest_after_prev_beats * (60 / bpm) >= long_rest_threshold_sec, else 1.0.
\* rest_after_prev_beats is in 1/1000 beat, the threshold in milliseconds.
shift_mult(pp, rest_after_prev_beats) ==
    IF rest_after_prev_beats * 60 >= pp.long_rest_threshold_sec * pp.bpm
    THEN pp.long_rest_shift_multiplier
    ELSE 100

\* string crossing cost (lines 351-355)
string_cross_cost(pp, string_cross) ==
    IF string_cross <= 1
    THEN pp.adjacent_string_cross_cost
    ELSE (string_cross - 1) * pp.skip_string_cross_cost

\* shape change penalty if anchor unchanged (lines 357-364)
shape_change_cost(pp, prev, cur) ==
    IF cur.anchor = prev.anchor /\ cur.shape # prev.shape
    THEN (Abs(cur.shape.o2 - prev.shape.o2) + Abs(cur.shape.o3 - prev.shape.o3)
            + Abs(cur.shape.o4 - prev.shape.o4)) * pp.shape_change_cost_per_semitone
    ELSE 0

\* retarget penalty based on the last time this finger was used (lines 366-383)
retarget_cost(pp, prev_key, cur) ==
    LET prev == prev_key.state
        cur_off == offset_for_finger(cur.shape, cur.finger)
        last == IF cur.finger = 2 THEN prev_key.last_o2
                ELSE IF cur.finger = 3 THEN prev_key.last_o3
                ELSE prev_key.last_o4
    IN IF cur.anchor = prev.anchor /\ cur.finger \in {2, 3, 4}
          /\ last # -1 /\ last # cur_off
       THEN Abs(last - cur_off) * pp.used_finger_retarget_cost_per_semitone
       ELSE 0

\* finger_repeat_cost without the same-place exception
finger_repeat_cost_full(pp, prev, cur) ==
    IF prev.finger # 0 /\ prev.finger = cur.finger /\ prev.pitch_midi # cur.pitch_midi
    THEN pp.same_finger_repeat_penalty
    ELSE IF prev.finger # cur.finger /\ prev.finger # 0 /\ cur.finger # 0
         THEN pp.finger_change_cost
         ELSE 0

\* consecutive same-finger penalty, else finger change cost (lines 385-400)
finger_repeat_cost(pp, prev, cur) ==
    IF prev.finger # 0 /\ prev.finger = cur.finger /\ prev.pitch_midi # cur.pitch_midi
    THEN IF /\ prev.string_idx # cur.string_idx
            /\ prev.anchor = cur.anchor
            /\ prev.shape = cur.shape
            /\ prev.stop = cur.stop
         THEN pp.same_finger_repeat_cross_string_same_place_penalty
         ELSE pp.same_finger_repeat_penalty
    ELSE IF prev.finger # cur.finger /\ prev.finger # 0 /\ cur.finger # 0
         THEN pp.finger_change_cost
         ELSE 0

\* anchor_shift_cost that charges nothing for a shift
anchor_shift_cost_free(pp, prev_key, cur, rest_after_prev_beats) == 0

\* anchor shift cost (lines 402-413)
anchor_shift_cost(pp, prev_key, cur, rest_after_prev_beats) ==
    LET anchor_shift == Abs(cur.anchor - prev_key.state.anchor)
        mult == shift_mult(pp, rest_after_prev_beats)
        event0 == (pp.shift_event_cost * mult) \div 100
        event_cost == IF mult < 100
                      THEN Max2(event0, pp.min_shift_event_cost_after_long_rest)
                      ELSE event0
    IN IF anchor_shift > 0
       THEN (IF ~prev_key.settled THEN pp.unsettled_shift_penalty
             ELSE pp.settled_shift_bonus)
            + event_cost
            + ((anchor_shift * pp.shift_cost_per_semitone) * mult) \div 100
       ELSE 0

\* math.inf, the cost of a rejected transition (line 497)
Inf == 2000000000

\* avail_sec = 100 (line 452), in 1/10 s
avail_sec == 1000

\* required_sec of lines 327-341, in 1/10 s, rounded down
required_sec(pp, prev_key, cur, rest_after_prev_beats) ==
    LET prev == prev_key.state
        anchor_shift == Abs(cur.anchor - prev.anchor)
        string_cross == Abs(cur.string_idx - prev.string_idx)
        speed0 == pp.shift_speed_semitones_per_sec
        speed1 == IF prev.finger = 0 /\ prev.stop = 0
                  THEN (speed0 * pp.open_string_shift_speed_multiplier) \div 100
                  ELSE speed0
        speed == IF rest_after_prev_beats > 0
                 THEN (speed1 * pp.rest_shift_speed_multiplier) \div 100
                 ELSE speed1
        cross_time == IF string_cross <= 1
                      THEN string_cross * pp.adjacent_string_cross_time_sec
                      ELSE pp.adjacent_string_cross_time_sec
                           + (string_cross - 1) * pp.skip_string_cross_time_sec
    IN (anchor_shift * 10000000) \div Max2(speed, 1) + cross_time

\* transition_cost_and_feasible with the check the comment of lines 415-416
\* describes: math.inf when required_sec > avail_sec + slack
transition_cost_enforced(pp, prev_key, cur, rest_after_prev_beats) ==
    IF required_sec(pp, prev_key, cur, rest_after_prev_beats)
          > avail_sec + pp.time_slack_sec
    THEN Inf
    ELSE string_cross_cost(pp, Abs(cur.string_idx - prev_key.state.string_idx))
         + shape_change_cost(pp, prev_key.state, cur)
         + retarget_cost(pp, prev_key, cur)
         + finger_repeat_cost(pp, prev_key.state, cur)
         + anchor_shift_cost(pp, prev_key, cur, rest_after_prev_beats)

\* The required_sec value of lines 327-341 is computed by the code and never
\* read; the function returns the cost alone and never math.inf.
transition_cost_and_feasible(pp, prev_key, cur, rest_after_prev_beats) ==
    string_cross_cost(pp, Abs(cur.string_idx - prev_key.state.string_idx))
    + shape_change_cost(pp, prev_key.state, cur)
    + retarget_cost(pp, prev_key, cur)
    + finger_repeat_cost(pp, prev_key.state, cur)
    + anchor_shift_cost(pp, prev_key, cur, rest_after_prev_beats)

-----------------------------------------------------------------------------
(* History update *)

\* DPKey of the first note (lines 441-445)
InitialKey(st) ==
    DPKey(st, is_anchor_note(st),
          IF st.finger = 2 THEN st.shape.o2 ELSE -1,
          IF st.finger = 3 THEN st.shape.o3 ELSE -1,
          IF st.finger = 4 THEN st.shape.o4 ELSE -1)

\* NextKey that inherits last_o2/3/4 across an anchor change
NextKeyNoOffsetReset(prev_key, cur_st) ==
    LET anchor_changed == cur_st.anchor # prev_key.state.anchor
        next_settled == IF anchor_changed THEN is_anchor_note(cur_st)
                        ELSE prev_key.settled \/ is_anchor_note(cur_st)
    IN DPKey(cur_st, next_settled,
             IF cur_st.finger = 2 THEN cur_st.shape.o2 ELSE prev_key.last_o2,
             IF cur_st.finger = 3 THEN cur_st.shape.o3 ELSE prev_key.last_o3,
             IF cur_st.finger = 4 THEN cur_st.shape.o4 ELSE prev_key.last_o4)

\* NextKey that keeps settled across an anchor change
NextKeyNoSettledReset(prev_key, cur_st) ==
    LET anchor_changed == cur_st.anchor # prev_key.state.anchor
        next_settled == prev_key.settled \/ is_anchor_note(cur_st)
        base2 == IF anchor_changed THEN -1 ELSE prev_key.last_o2
        base3 == IF anchor_changed THEN -1 ELSE prev_key.last_o3
        base4 == IF anchor_changed THEN -1 ELSE prev_key.last_o4
    IN DPKey(cur_st, next_settled,
             IF cur_st.finger = 2 THEN cur_st.shape.o2 ELSE base2,
             IF cur_st.finger = 3 THEN cur_st.shape.o3 ELSE base3,
             IF cur_st.finger = 4 THEN cur_st.shape.o4 ELSE base4)

\* DPKey reached from prev_key by playing cur_st (lines 462-485, 501-503)
NextKey(prev_key, cur_st) ==
    LET anchor_changed == cur_st.anchor # prev_key.state.anchor
        next_settled == IF anchor_changed THEN is_anchor_note(cur_st)
                        ELSE prev_key.settled \/ is_anchor_note(cur_st)
        base2 == IF anchor_changed THEN -1 ELSE prev_key.last_o2
        base3 == IF anchor_changed THEN -1 ELSE prev_key.last_o3
        base4 == IF anchor_changed THEN -1 ELSE prev_key.last_o4
    IN DPKey(cur_st, next_settled,
             IF cur_st.finger = 2 THEN cur_st.shape.o2 ELSE base2,
             IF cur_st.finger = 3 THEN cur_st.shape.o3 ELSE base3,
             IF cur_st.finger = 4 THEN cur_st.shape.o4 ELSE base4)

-----------------------------------------------------------------------------
(* Insertion-ordered dictionaries (Python dict): order of first insertion   *)
(* plus the stored values.                                                  *)

EmptyDict == [order |-> <<>>, val |-> <<>>]

Has(d, k) == k \in DOMAIN d.val

\* d[k] = v
Put(d, k, v) ==
    IF Has(d, k)
    THEN [order |-> d.order, val |-> [d.val EXCEPT ![k] = v]]
    ELSE [order |-> Append(d.order, k),
          val |-> [x \in (DOMAIN d.val) \cup {k} |-> IF x = k THEN v ELSE d.val[x]]]

\* Optional[DPKey]: None is the empty tuple, a key k is <<k>>
None == <<>>

\* d.get(k)
Get(d, k) == IF Has(d, k) THEN d.val[k] ELSE None

-----------------------------------------------------------------------------
(* Events *)

\* Event of schemas.py; a missing (None or empty) note is the empty name
NoNote == Note("", <<>>, 0)

Event(type, beats, note) == [type |-> type, beats |-> beats, note |-> note]

\* str(x).upper() on the type texts the model uses; "None" is the text of None
Upper(t) ==
    CASE t = "n" -> "N"
      [] t = "r" -> "R"
      [] t = "None" -> "NONE"
      [] OTHER -> t

\* An item of the request payload.  form is "list" for a list or tuple of len
\* items (type, beats, note in this order), "dict" for an object, "other" for
\* anything else; a field that is absent or null holds NoType, NoBeats, NoNote.
NoType == "None"

NoBeats == -1

Item(form, len, type, beats, note) ==
    [form |-> form, len |-> len, type |-> type, beats |-> beats, note |-> note]

\* schemas.coerce_events, from the k-th item of the payload on
RECURSIVE coerce_events(_, _)
coerce_events(pl, k) ==
    IF k > Len(pl) THEN [err |-> "none", events |-> <<>>]
    ELSE LET item == pl[k]
             more == coerce_events(pl, k + 1)
         IN IF item.form = "list"
            THEN IF item.len < 2 THEN [err |-> "NeedsTypeAndBeats", events |-> <<>>]
                 ELSE IF item.beats = NoBeats THEN [err |-> "TypeError", events |-> <<>>]
                 ELSE IF more.err # "none" THEN more
                 ELSE [err |-> "none",
                       events |-> <<Event(item.type, item.beats,
                                          IF item.len > 2 THEN item.note ELSE NoNote)>>
                                    \o more.events]
            ELSE IF item.form = "dict"
            THEN IF item.beats = NoBeats THEN [err |-> "TypeError", events |-> <<>>]
                 ELSE IF more.err # "none" THEN more
                 ELSE [err |-> "none",
                       events |-> <<Event(item.type, item.beats, item.note)>>
                                    \o more.events]
            ELSE [err |-> "NotListOrObject", events |-> <<>>]

\* engine.compute_fingering lines 27-36: Event records to solver tuples
RECURSIVE ConvertEvents(_, _)
ConvertEvents(evs, k) ==
    IF k > Len(evs) THEN [err |-> "none", events |-> <<>>]
    ELSE LET ev == evs[k]
             rest == ConvertEvents(evs, k + 1)
         IN IF Upper(ev.type) = "R"
            THEN IF rest.err # "none" THEN rest
                 ELSE [err |-> "none", events |-> <<(<<"R", ev.beats>>)>> \o rest.events]
            ELSE IF Upper(ev.type) = "N"
            THEN IF ev.note = NoNote
                 THEN [err |-> "MissingNote", events |-> <<>>]
                 ELSE IF rest.err # "none" THEN rest
                 ELSE [err |-> "none",
                       events |-> <<(<<"N", ev.beats, ev.note>>)>> \o rest.events]
            ELSE [err |-> "UnknownEventType", events |-> <<>>]

\* RestRunEnd that takes one R event at most
RestRunEndOne(evs, k) ==
    IF k <= Len(evs) /\ Upper(evs[k][1]) = "R" THEN k + 1 ELSE k

\* index just past the run of R events that starts at k (lines 188-193)
RECURSIVE RestRunEnd(_, _)
RestRunEnd(evs, k) ==
    IF k <= Len(evs) /\ Upper(evs[k][1]) = "R" THEN RestRunEnd(evs, k + 1) ELSE k

\* sum of the beats of events k..(e-1)
RECURSIVE BeatsBetween(_, _, _)
BeatsBetween(evs, k, e) ==
    IF k >= e THEN 0 ELSE evs[k][2] + BeatsBetween(evs, k + 1, e)

\* ViolinFingeringSolver._parse_events; k is the 1-based position of events[i]
RECURSIVE parse_events(_, _)
parse_events(evs, k) ==
    IF k > Len(evs) THEN [err |-> "none", notes |-> <<>>]
    ELSE LET typ == Upper(evs[k][1])
         IN IF typ = "N"
            THEN IF ~NoteFormatOk(evs[k][3])
                 THEN [err |-> "InvalidNote", notes |-> <<>>]
                 ELSE LET e == RestRunEnd(evs, k + 1)
                          rest_after == BeatsBetween(evs, k + 1, e)
                          rec == [event_index |-> k - 1,
                                  note_name |-> evs[k][3],
                                  pitch_midi |-> note_to_midi(evs[k][3]),
                                  duration_beats |-> evs[k][2],
                                  rest_after_beats |-> rest_after,
                                  gap_beats |-> evs[k][2] + rest_after]
                          more == parse_events(evs, e)
                      IN IF more.err # "none" THEN more
                         ELSE [err |-> "none", notes |-> <<rec>> \o more.notes]
            ELSE IF typ = "R" THEN parse_events(evs, k + 1)
            ELSE [err |-> "UnknownEventType", notes |-> <<>>]

-----------------------------------------------------------------------------
(* DP layers *)

\* A layer in progress: the cost dict and the predecessor dict
Layer(dp, back) == [dp |-> dp, back |-> back]

\* lines 440-447: the first layer
InitOne(pp, L, st) ==
    LET key == InitialKey(st)
    IN Layer(Put(L.dp, key, note_cost(pp, st)), Put(L.back, key, None))

RECURSIVE init_layer(_, _, _, _, _)
init_layer(pp, L, sts, lo, hi) ==
    IF lo > hi THEN L
    ELSE IF lo = hi THEN InitOne(pp, L, sts[lo])
    ELSE LET mid == (lo + hi) \div 2
             first == init_layer(pp, L, sts, lo, mid)
         IN IF Len(first.dp.order) >= 0
            THEN init_layer(pp, first, sts, mid + 1, hi)
            ELSE first

\* Relax with the comparison dropped: the last candidate of a key wins
RelaxLastWins(pp, L, prev_key, prev_cost, cur_st, rest_after_prev) ==
    LET tcost == transition_cost_and_feasible(pp, prev_key, cur_st, rest_after_prev)
        total == prev_cost + tcost + note_cost(pp, cur_st)
        cur_key == NextKey(prev_key, cur_st)
    IN Layer(Put(L.dp, cur_key, total), Put(L.back, cur_key, <<prev_key>>))

\* Relax that improves the cost of a known key and forgets its predecessor
RelaxKeepsBack(pp, L, prev_key, prev_cost, cur_st, rest_after_prev) ==
    LET tcost == transition_cost_and_feasible(pp, prev_key, cur_st, rest_after_prev)
        total == prev_cost + tcost + note_cost(pp, cur_st)
        cur_key == NextKey(prev_key, cur_st)
    IN IF ~Has(L.dp, cur_key)
       THEN Layer(Put(L.dp, cur_key, total), Put(L.back, cur_key, <<prev_key>>))
       ELSE IF total < L.dp.val[cur_key]
       THEN Layer(Put(L.dp, cur_key, total), L.back)
       ELSE L

\* Relax that also replaces on a tie (<= in place of <)
RelaxTiesReplace(pp, L, prev_key, prev_cost, cur_st, rest_after_prev) ==
    LET tcost == transition_cost_and_feasible(pp, prev_key, cur_st, rest_after_prev)
        total == prev_cost + tcost + note_cost(pp, cur_st)
        cur_key == NextKey(prev_key, cur_st)
    IN IF tcost = Inf THEN L
       ELSE IF ~Has(L.dp, cur_key) \/ total <= L.dp.val[cur_key]
       THEN Layer(Put(L.dp, cur_key, total), Put(L.back, cur_key, <<prev_key>>))
       ELSE L

\* lines 500-507: one candidate
Relax(pp, L, prev_key, prev_cost, cur_st, rest_after_prev) ==
    LET tcost == transition_cost_and_feasible(pp, prev_key, cur_st, rest_after_prev)
        total == prev_cost + tcost + note_cost(pp, cur_st)
        cur_key == NextKey(prev_key, cur_st)
    IN IF tcost = Inf THEN L
       ELSE IF ~Has(L.dp, cur_key) \/ total < L.dp.val[cur_key]
       THEN Layer(Put(L.dp, cur_key, total), Put(L.back, cur_key, <<prev_key>>))
       ELSE L

\* lines 461-507: the inner loop, one prev_key against every state of note i
RECURSIVE relax_states(_, _, _, _, _, _, _, _)
relax_states(pp, L, prev_key, prev_cost, sts, lo, hi, rest_after_prev) ==
    IF lo > hi THEN L
    ELSE IF lo = hi THEN Relax(pp, L, prev_key, prev_cost, sts[lo], rest_after_prev)
    ELSE LET mid == (lo + hi) \div 2
             first == relax_states(pp, L, prev_key, prev_cost, sts, lo, mid,
                                   rest_after_prev)
         IN IF Len(first.dp.order) >= 0
            THEN relax_states(pp, first, prev_key, prev_cost, sts, mid + 1, hi,
                              rest_after_prev)
            ELSE first

relax_prev(pp, L, prev_key, prev_cost, sts, rest_after_prev) ==
    relax_states(pp, L, prev_key, prev_cost, sts, 1, Len(sts), rest_after_prev)

\* lines 458-507: the relaxation of a layer by the prev_keys lo..hi of dp_prev
RECURSIVE relax_layer(_, _, _, _, _, _, _)
relax_layer(pp, L, dprev, lo, hi, sts, rest_after_prev) ==
    IF lo > hi THEN L
    ELSE IF lo = hi
    THEN relax_prev(pp, L, dprev.order[lo], dprev.val[dprev.order[lo]], sts,
                    rest_after_prev)
    ELSE LET mid == (lo + hi) \div 2
             first == relax_layer(pp, L, dprev, lo, mid, sts, rest_after_prev)
         IN IF Len(first.dp.order) >= 0
            THEN relax_layer(pp, first, dprev, mid + 1, hi, sts, rest_after_prev)
            ELSE first

\* min(dp_prev.keys(), key=lambda k: dp_prev[k]): the first key of least cost
end_key_of(d) ==
    LET best == CHOOSE k \in 1..Len(d.order) :
                    /\ \A m \in 1..Len(d.order) : d.val[d.order[k]] <= d.val[d.order[m]]
                    /\ \A m \in 1..(k - 1) : d.val[d.order[m]] > d.val[d.order[k]]
    IN d.order[best]

\* lines 521-529, before the reverse: keys from layer idx (0-based) downwards
RECURSIVE walk_back(_, _, _)
walk_back(bp, idx, cur) ==
    IF idx < 0 THEN <<>>
    ELSE LET prev == Get(bp[idx + 1], cur)
         IN IF prev = None THEN <<cur>>
            ELSE <<cur>> \o walk_back(bp, idx - 1, prev[1])

Reverse(s) == [k \in 1..Len(s) |-> s[Len(s) + 1 - k]]

-----------------------------------------------------------------------------
(* Output *)

Min2(a, b) == IF a <= b THEN a ELSE b

\* lines 532-554: zip(notes, path_keys)
note_fingerings_of(ns, keys) ==
    [k \in 1..Min2(Len(ns), Len(keys)) |->
        LET n == ns[k]
            key == keys[k]
            st == key.state
        IN [note |-> n.note_name,
            pitch_midi |-> n.pitch_midi,
            duration_beats |-> n.duration_beats,
            string |-> STRING_NAMES[st.string_idx + 1],
            string_index |-> st.string_idx,
            finger |-> st.finger,
            anchor_semitones |-> st.anchor,
            o2 |-> st.shape.o2,
            o3 |-> st.shape.o3,
            o4 |-> st.shape.o4,
            stop_semitones |-> st.stop,
            delta_stop_minus_anchor |-> st.stop - st.anchor,
            settled_since_last_shift |-> key.settled,
            last_o2_used |-> key.last_o2,
            last_o3_used |-> key.last_o3,
            last_o4_used |-> key.last_o4]]

\* NoteIdxByEventIndex that counts the events, not the notes, before ev_i
NoteIdxCountsRests(ns, ev_i) ==
    IF \E k \in 1..Len(ns) : ns[k].event_index = ev_i
    THEN Min2(ev_i + 1, Len(ns))
    ELSE 0

\* note_idx_by_event_index.get(ev_i): 1-based position of the note, 0 for None
NoteIdxByEventIndex(ns, ev_i) ==
    IF \E k \in 1..Len(ns) : ns[k].event_index = ev_i
    THEN CHOOSE k \in 1..Len(ns) : ns[k].event_index = ev_i
    ELSE 0

\* lines 556-575: map back to the original events, from the k-th event on
RECURSIVE events_out_of(_, _, _, _)
events_out_of(evs, ns, fings, k) ==
    IF k > Len(evs) THEN [err |-> "none", events_out |-> <<>>]
    ELSE LET typ == Upper(evs[k][1])
             more == events_out_of(evs, ns, fings, k + 1)
             idx == NoteIdxByEventIndex(ns, k - 1)
         IN IF typ = "R"
            THEN IF more.err # "none" THEN more
                 ELSE [err |-> "none",
                       events_out |-> <<[type |-> "R", beats |-> evs[k][2]]>>
                                        \o more.events_out]
            ELSE IF typ = "N"
            THEN IF idx > Len(fings) THEN [err |-> "IndexError", events_out |-> <<>>]
                 ELSE IF more.err # "none" THEN more
                 ELSE [err |-> "none",
                       events_out |->
                         <<[type |-> "N", beats |-> evs[k][2], note |-> evs[k][3],
                            fingering |-> IF idx = 0 THEN None ELSE <<fings[idx]>>]>>
                           \o more.events_out]
            ELSE [err |-> "UnknownEventType", events_out |-> <<>>]

\* the dict solve() returns
Result(cost, fings, evs_out) ==
    [total_cost |-> cost, note_fingerings |-> fings, events_out |-> evs_out]

\* engine.compute_fingering lines 45-78, from the k-th item of events_out on
RECURSIVE flatten(_, _)
flatten(evs_out, k) ==
    IF k > Len(evs_out) THEN [err |-> "none", items |-> <<>>]
    ELSE LET ev == evs_out[k]
             more == flatten(evs_out, k + 1)
         IN IF Upper(ev.type) = "R"
            THEN IF more.err # "none" THEN more
                 ELSE [err |-> "none",
                       items |-> <<[type |-> "R", duration_beats |-> ev.beats]>>
                                   \o more.items]
            ELSE IF Upper(ev.type) # "N"
            THEN [err |-> "UnexpectedItemType", items |-> <<>>]
            ELSE IF ev.fingering = None
            THEN [err |-> "TypeError", items |-> <<>>]
            ELSE IF more.err # "none" THEN more
            ELSE LET fing == ev.fingering[1]
                 IN [err |-> "none",
                     items |->
                       <<[type |-> "N",
                          note |-> fing.note,
                          pitch_midi |-> fing.pitch_midi,
                          duration_beats |-> fing.duration_beats,
                          string |-> fing.string,
                          string_index |-> fing.string_index,
                          finger |-> fing.finger,
                          stop_semitones |-> fing.stop_semitones,
                          anchor_semitones |-> fing.anchor_semitones,
                          o2 |-> fing.o2,
                          o3 |-> fing.o3,
                          o4 |-> fing.o4,
                          delta_stop_minus_anchor |-> fing.delta_stop_minus_anchor,
                          settled_since_last_shift |-> fing.settled_since_last_shift,
                          last_o2_used |-> fing.last_o2_used,
                          last_o3_used |-> fing.last_o3_used,
                          last_o4_used |-> fing.last_o4_used]>>
                         \o more.items]

-----------------------------------------------------------------------------
(* The pipeline as a state machine *)

NoResult == Result(0, <<>>, <<>>)

\* No part is being parsed
NoScore ==
    /\ part = <<>>
    /\ el = 0
    /\ divisions = 1
    /\ tie_active = FALSE
    /\ tie_note = <<>>
    /\ tie_beats_accum = 0
    /\ part_events = <<>>

\* No pitch is being converted
NoPitch == [step |-> "", alter |-> <<>>, octave |-> 0]

NoPitchGiven ==
    /\ pitch_el = NoPitch
    /\ note_name = <<>>
    /\ midi_solver = <<>>
    /\ midi_utils = <<>>

\* State at the call compute_fingering(evs, bpm) with parameter record pp
Start(pp, evs) ==
    /\ payload = <<>>
    /\ p = pp
    /\ in_events = evs
    /\ pc = "convert"
    /\ err = "none"
    /\ err_note = <<>>
    /\ events = <<>>
    /\ notes = <<>>
    /\ states_per_note = <<>>
    /\ i = 0
    /\ j = 0
    /\ dp_prev = EmptyDict
    /\ dp_cur = EmptyDict
    /\ back_cur = EmptyDict
    /\ backptr = <<>>
    /\ total_cost = 0
    /\ path_keys = <<>>
    /\ result = NoResult
    /\ flattened = <<>>
    /\ NoScore
    /\ NoPitchGiven

Fail(kind) == pc' = "failed" /\ err' = kind /\ err_note' = <<>>

\* lines 430-433: the error that names the note n
FailNote(kind, n) == pc' = "failed" /\ err' = kind /\ err_note' = <<n>>

\* State at the call of api_finger with the events value pl (app.py line 79)
StartApp(pp, pl) ==
    /\ payload = pl
    /\ p = pp
    /\ in_events = <<>>
    /\ pc = "coerce"
    /\ err = "none"
    /\ err_note = <<>>
    /\ events = <<>>
    /\ notes = <<>>
    /\ states_per_note = <<>>
    /\ i = 0
    /\ j = 0
    /\ dp_prev = EmptyDict
    /\ dp_cur = EmptyDict
    /\ back_cur = EmptyDict
    /\ backptr = <<>>
    /\ total_cost = 0
    /\ path_keys = <<>>
    /\ result = NoResult
    /\ flattened = <<>>
    /\ NoScore
    /\ NoPitchGiven

\* app.py line 80: events = coerce_events(payload.get("events"))
Coerce ==
    /\ pc = "coerce"
    /\ LET c == coerce_events(payload, 1)
       IN IF c.err # "none"
          THEN Fail(c.err) /\ UNCHANGED in_events
          ELSE in_events' = c.events /\ pc' = "convert" /\ UNCHANGED <<err, err_note>>
    /\ UNCHANGED <<score_vars, name_vars>>
    /\ UNCHANGED <<payload, p, events, notes, states_per_note, i, j, dp_prev, dp_cur,
                   back_cur, backptr, total_cost, path_keys, result, flattened>>

\* engine.py lines 27-36
Convert ==
    /\ pc = "convert"
    /\ LET c == ConvertEvents(in_events, 1)
       IN IF c.err # "none"
          THEN Fail(c.err) /\ UNCHANGED events
          ELSE events' = c.events /\ pc' = "parse" /\ UNCHANGED <<err, err_note>>
    /\ UNCHANGED <<score_vars, name_vars>>
    /\ UNCHANGED <<payload, p, in_events, notes, states_per_note, i, j, dp_prev, dp_cur,
                   back_cur, backptr, total_cost, path_keys, result, flattened>>

\* solve lines 421-423
Parse ==
    /\ pc = "parse"
    /\ LET r == parse_events(events, 1)
       IN IF r.err # "none"
          THEN Fail(r.err) /\ UNCHANGED <<notes, result>>
          ELSE IF r.notes = <<>>
          THEN /\ notes' = r.notes
               /\ result' = Result(0, <<>>, <<>>)
               /\ pc' = "flatten"
               /\ UNCHANGED <<err, err_note>>
          ELSE notes' = r.notes /\ pc' = "enumerate" /\ UNCHANGED <<err, err_note, result>>
    /\ UNCHANGED <<score_vars, name_vars>>
    /\ UNCHANGED <<payload, p, in_events, events, states_per_note, i, j, dp_prev, dp_cur,
                   back_cur, backptr, total_cost, path_keys, flattened>>

\* Enumerate that looks for an empty enumeration at the first note only
EnumerateFirstOnly ==
    /\ pc = "enumerate"
    /\ LET sts == [k \in 1..Len(notes) |-> states_for_pitch(p, notes[k].pitch_midi)]
       IN IF sts[1] = <<>>
          THEN FailNote("NoPlayableState", notes[1]) /\ UNCHANGED states_per_note
          ELSE states_per_note' = sts /\ pc' = "init" /\ UNCHANGED <<err, err_note>>
    /\ UNCHANGED <<score_vars, name_vars>>
    /\ UNCHANGED <<payload, p, in_events, events, notes, i, j, dp_prev, dp_cur,
                   back_cur, backptr, total_cost, path_keys, result, flattened>>

\* solve lines 425-433
Enumerate ==
    /\ pc = "enumerate"
    /\ LET sts == [k \in 1..Len(notes) |-> states_for_pitch(p, notes[k].pitch_midi)]
       IN IF \E k \in 1..Len(notes) : sts[k] = <<>>
          THEN /\ FailNote("NoPlayableState",
                         notes[CHOOSE k \in 1..Len(notes) :
                                  /\ sts[k] = <<>>
                                  /\ \A m \in 1..(k - 1) : sts[m] # <<>>])
               /\ UNCHANGED states_per_note
          ELSE states_per_note' = sts /\ pc' = "init" /\ UNCHANGED <<err, err_note>>
    /\ UNCHANGED <<score_vars, name_vars>>
    /\ UNCHANGED <<payload, p, in_events, events, notes, i, j, dp_prev, dp_cur, back_cur,
                   backptr, total_cost, path_keys, result, flattened>>

\* solve lines 435-448
InitLayer ==
    /\ pc = "init"
    /\ LET L == init_layer(p, Layer(EmptyDict, EmptyDict), states_per_note[1], 1,
                               Len(states_per_note[1]))
       IN dp_prev' = L.dp /\ backptr' = <<L.back>>
    /\ i' = 1
    /\ pc' = "iterate"
    /\ UNCHANGED <<score_vars, name_vars>>
    /\ UNCHANGED <<payload, p, in_events, err, err_note, events, notes, states_per_note, j, dp_cur,
                   back_cur, total_cost, path_keys, result, flattened>>

\* solve lines 451-456: entering the loop body for note i
BeginLayer ==
    /\ pc = "iterate"
    /\ i < Len(notes)
    /\ dp_cur' = EmptyDict
    /\ back_cur' = EmptyDict
    /\ j' = 1
    /\ pc' = "relax"
    /\ UNCHANGED <<score_vars, name_vars>>
    /\ UNCHANGED <<payload, p, in_events, err, err_note, events, notes, states_per_note, i, dp_prev,
                   backptr, total_cost, path_keys, result, flattened>>

\* solve lines 458-507: one iteration of "for prev_key, prev_cost in dp_prev.items()"
RelaxPrev ==
    /\ pc = "relax"
    /\ j <= Len(dp_prev.order)
    /\ LET prev_key == dp_prev.order[j]
           L == relax_prev(p, Layer(dp_cur, back_cur), prev_key, dp_prev.val[prev_key],
                           states_per_note[i + 1], notes[i].rest_after_beats)
       IN dp_cur' = L.dp /\ back_cur' = L.back
    /\ j' = j + 1
    /\ UNCHANGED <<score_vars, name_vars>>
    /\ UNCHANGED <<payload, p, in_events, pc, err, err_note, events, notes, states_per_note, i, dp_prev,
                   backptr, total_cost, path_keys, result, flattened>>

\* solve lines 509-510
EndLayer ==
    /\ pc = "relax"
    /\ j > Len(dp_prev.order)
    /\ dp_prev' = dp_cur
    /\ backptr' = Append(backptr, back_cur)
    /\ i' = i + 1
    /\ pc' = "iterate"
    /\ UNCHANGED <<score_vars, name_vars>>
    /\ UNCHANGED <<payload, p, in_events, err, err_note, events, notes, states_per_note, j, dp_cur,
                   back_cur, total_cost, path_keys, result, flattened>>

\* solve lines 512-529
Reconstruct ==
    /\ pc = "iterate"
    /\ i >= Len(notes)
    /\ IF dp_prev.order = <<>>
       THEN Fail("NoFeasiblePath") /\ UNCHANGED <<total_cost, path_keys>>
       ELSE LET end_key == end_key_of(dp_prev)
            IN /\ total_cost' = dp_prev.val[end_key]
               /\ path_keys' = Reverse(walk_back(backptr, Len(notes) - 1, end_key))
               /\ pc' = "output"
               /\ UNCHANGED <<err, err_note>>
    /\ UNCHANGED <<score_vars, name_vars>>
    /\ UNCHANGED <<payload, p, in_events, events, notes, states_per_note, i, j, dp_prev,
                   dp_cur, back_cur, backptr, result, flattened>>

\* solve lines 531-577
Output ==
    /\ pc = "output"
    /\ LET fings == note_fingerings_of(notes, path_keys)
           out == events_out_of(events, notes, fings, 1)
       IN IF out.err # "none"
          THEN Fail(out.err) /\ UNCHANGED result
          ELSE /\ result' = Result(total_cost, fings, out.events_out)
               /\ pc' = "flatten"
               /\ UNCHANGED <<err, err_note>>
    /\ UNCHANGED <<score_vars, name_vars>>
    /\ UNCHANGED <<payload, p, in_events, events, notes, states_per_note, i, j, dp_prev,
                   dp_cur, back_cur, backptr, total_cost, path_keys, flattened>>

\* engine.py lines 42-80
Flatten ==
    /\ pc = "flatten"
    /\ LET f == flatten(result.events_out, 1)
       IN IF f.err # "none"
          THEN Fail(f.err) /\ UNCHANGED flattened
          ELSE flattened' = f.items /\ pc' = "done" /\ UNCHANGED <<err, err_note>>
    /\ UNCHANGED <<score_vars, name_vars>>
    /\ UNCHANGED <<payload, p, in_events, events, notes, states_per_note, i, j, dp_prev,
                   dp_cur, back_cur, backptr, total_cost, path_keys, result>>

Next ==
    \/ Convert
    \/ Parse
    \/ Enumerate
    \/ InitLayer
    \/ BeginLayer
    \/ RelaxPrev
    \/ EndLayer
    \/ Reconstruct
    \/ Output
    \/ Flatten

-----------------------------------------------------------------------------
(* Inputs *)

SeqsUpTo(S, n) == UNION {[1..k -> S] : k \in 0..n}

\* A reduced parameter record: the default costs on a short fingerboard with
\* two hand shapes
SmallParams(bpm) ==
    [DefaultParams(bpm) EXCEPT !.max_stop_semitones = 7,
                               !.max_anchor = 3,
                               !.finger3_offsets = <<3>>,
                               !.finger4_offsets = <<5>>]

Ab3 == Note("A", <<"b">>, 3)
A3 == Note("A", <<>>, 3)
Bb3 == Note("B", <<"b">>, 3)
B3 == Note("B", <<>>, 3)
C4 == Note("C", <<>>, 4)
D4 == Note("D", <<>>, 4)
E4 == Note("E", <<>>, 4)
F4 == Note("F", <<>>, 4)
A4 == Note("A", <<>>, 4)
C5 == Note("C", <<>>, 5)

SmallEvents ==
    {Event("N", 1000, n) : n \in {A3, Bb3, B3, C4, D4}}
        \cup {Event("R", b, NoNote) : b \in {500, 5000}}

Init == \E evs \in SeqsUpTo(SmallEvents, MaxEvents) : Start(SmallParams(80), evs)

Spec == Init /\ [][Next]_vars

\* The seed scenarios of the default configuration (engine.py line 38: the
\* parameter record is ViolinFingeringParams(bpm) with every default)
A4Alone == <<Event("N", 1000, A4)>>

RepeatedA4 == <<Event("N", 1000, A4), Event("N", 1000, A4)>>

LongRest == <<Event("N", 1000, C4), Event("R", 5000, NoNote), Event("N", 1000, C5)>>

ShortRest == <<Event("N", 1000, C4), Event("R", 500, NoNote), Event("N", 1000, C5)>>

ScenarioInputs == {A4Alone, RepeatedA4, LongRest, ShortRest}

InitDefault == \E evs \in ScenarioInputs : Start(DefaultParams(80), evs)

SpecDefault == InitDefault /\ [][Next]_vars

\* The C major scale of one octave from C4, one beat each, default parameters
G4 == Note("G", <<>>, 4)
B4 == Note("B", <<>>, 4)

CMajorScale == [k \in 1..8 |-> Event("N", 1000, <<C4, D4, E4, F4, G4, A4, B4, C5>>[k])]

\* Short inputs low on the G string, for the default parameter record
LowNotes == {Event("N", 1000, n) : n \in {Ab3, A3, Bb3, B3, C4}}

ScaleInputs == {CMajorScale} \cup (SeqsUpTo(LowNotes, 2) \ {<<>>})

\* Inputs with notes that have no state: F3 lies below the open G string, C6
\* above stop max_stop_semitones of the E string of the reduced record
F3 == Note("F", <<>>, 3)
C6 == Note("C", <<>>, 6)

UnplayableEvents ==
    {Event("N", 1000, n) : n \in {A3, C4, F3, C6}} \cup {Event("R", 500, NoNote)}

InitUnplayable ==
    \E evs \in SeqsUpTo(UnplayableEvents, MaxEvents) : Start(SmallParams(80), evs)

SpecUnplayable == InitUnplayable /\ [][Next]_vars

\* Inputs under every combination of a few values of the timing parameters:
\* shift speed 0 or 5 semitones per second, crossing times 0 or 60 s, slack 0
\* or 1 s
B5 == Note("B", <<>>, 5)

TimingParams ==
    {[SmallParams(80) EXCEPT !.shift_speed_semitones_per_sec = sp,
                             !.adjacent_string_cross_time_sec = ct,
                             !.skip_string_cross_time_sec = st,
                             !.time_slack_sec = sl] :
        sp \in {0, 5000000}, ct \in {0, 600}, st \in {0, 600}, sl \in {0, 10}}

TimingEvents ==
    {Event("N", 1000, n) : n \in {Ab3, C4, B5}} \cup {Event("R", 500, NoNote)}

InitTiming ==
    \E pp \in TimingParams : \E evs \in SeqsUpTo(TimingEvents, MaxEvents) :
        Start(pp, evs)

SpecTiming == InitTiming /\ [][Next]_vars

\* Inputs with notes a fifth apart, which lie at the same stop of neighbouring
\* strings
FifthEvents ==
    {Event("N", 1000, n) : n \in {A3, Bb3, E4, F4}} \cup {Event("R", 500, NoNote)}

InitFifths ==
    \E evs \in SeqsUpTo(FifthEvents, MaxEvents) : Start(SmallParams(80), evs)

SpecFifths == InitFifths /\ [][Next]_vars

\* Inputs in which every note is followed by one rest of 0, 0.5 or 5 beats:
\* up to MaxRestNotes notes, reduced parameter record
MaxRestNotes == 3

NoteThenRest == {<<Event("N", 1000, n), Event("R", b, NoNote)>> :
                    n \in {A3, Bb3, B3}, b \in {0, 500, 5000}}

InitRest ==
    \E pairs \in SeqsUpTo(NoteThenRest, MaxRestNotes) :
        Start(SmallParams(80), Concat(pairs))

SpecRest == InitRest /\ [][Next]_vars

-----------------------------------------------------------------------------
(* solve() as a function of its input, for claims that compare two inputs *)

\* lines 451-510: the layers k..Len(ns) relaxed in turn, from the dict of layer k-1
RECURSIVE solve_layers(_, _, _, _, _)
solve_layers(pp, ns, sps, dprev, k) ==
    IF k > Len(ns) THEN dprev
    ELSE LET L == relax_layer(pp, Layer(EmptyDict, EmptyDict), dprev, 1,
                              Len(dprev.order), sps[k], ns[k - 1].rest_after_beats)
         IN solve_layers(pp, ns, sps, L.dp, k + 1)

\* total_cost of solve(evs) for tuple events evs with at least one note, every
\* note playable (lines 420-518)
solve_total_cost(pp, evs) ==
    LET ns == parse_events(evs, 1).notes
        sps == [k \in 1..Len(ns) |-> states_for_pitch(pp, ns[k].pitch_midi)]
        first == init_layer(pp, Layer(EmptyDict, EmptyDict), sps[1], 1, Len(sps[1]))
        last == solve_layers(pp, ns, sps, first.dp, 2)
    IN last.val[end_key_of(last)]

\* lines 451-510 with the predecessor dicts kept: what the locals hold once the
\* layer L has been relaxed from acc.dp_prev (lines 509-510)
layer_done(acc, L) ==
    [dp_prev |-> L.dp, backptr |-> Append(acc.backptr, L.back),
     dp_cur |-> L.dp, back_cur |-> L.back,
     j |-> Len(acc.dp_prev.order) + 1]

\* lines 451-510: the layers k..Len(ns) relaxed in turn; dp_cur and back_cur are
\* those of the last layer relaxed and j one past the length of the dp_prev it
\* was relaxed from
RECURSIVE run_layers(_, _, _, _, _)
run_layers(pp, ns, sps, acc, k) ==
    IF k > Len(ns) THEN acc
    ELSE run_layers(pp, ns, sps,
                    layer_done(acc,
                               relax_layer(pp, Layer(EmptyDict, EmptyDict), acc.dp_prev,
                                           1, Len(acc.dp_prev.order), sps[k],
                                           ns[k - 1].rest_after_beats)),
                    k + 1)

\* the locals of solve() before anything has been computed
blank_run ==
    [err |-> "none", err_note |-> <<>>, notes |-> <<>>, states_per_note |-> <<>>,
     i |-> 0, j |-> 0, dp_prev |-> EmptyDict, dp_cur |-> EmptyDict,
     back_cur |-> EmptyDict, backptr |-> <<>>, total_cost |-> 0,
     path_keys |-> <<>>, result |-> Result(0, <<>>, <<>>)]

\* lines 512-577: the end of solve() once the last layer is relaxed
solve_path(pp, evs, ns, sps, last) ==
    LET run == [blank_run EXCEPT !.notes = ns, !.states_per_note = sps,
                                 !.i = Len(ns), !.j = last.j,
                                 !.dp_prev = last.dp_prev, !.dp_cur = last.dp_cur,
                                 !.back_cur = last.back_cur,
                                 !.backptr = last.backptr]
    IN IF last.dp_prev.order = <<>>
       THEN [run EXCEPT !.err = "NoFeasiblePath"]
       ELSE LET end_key == end_key_of(last.dp_prev)
                cost == last.dp_prev.val[end_key]
                keys == Reverse(walk_back(last.backptr, Len(ns) - 1, end_key))
                fings == note_fingerings_of(ns, keys)
                out == events_out_of(evs, ns, fings, 1)
                found == [run EXCEPT !.total_cost = cost, !.path_keys = keys]
            IN IF out.err # "none" THEN [found EXCEPT !.err = out.err]
               ELSE [found EXCEPT !.result = Result(cost, fings, out.events_out)]

\* lines 436-510: the layers of solve() from the first layer on
solve_from_first(pp, evs, ns, sps, first) ==
    solve_path(pp, evs, ns, sps,
               run_layers(pp, ns, sps,
                          [dp_prev |-> first.dp, backptr |-> <<first.back>>,
                           dp_cur |-> EmptyDict, back_cur |-> EmptyDict, j |-> 0],
                          2))

\* lines 428-449: solve() once the notes ns have their playable states sps
solve_notes(pp, evs, ns, sps) ==
    IF \E k \in 1..Len(ns) : sps[k] = <<>>
    THEN [blank_run EXCEPT !.err = "NoPlayableState", !.notes = ns,
                           !.err_note = <<ns[CHOOSE k \in 1..Len(ns) :
                                               /\ sps[k] = <<>>
                                               /\ \A m \in 1..(k - 1) : sps[m] # <<>>]>>]
    ELSE solve_from_first(pp, evs, ns, sps,
                      init_layer(pp, Layer(EmptyDict, EmptyDict), sps[1], 1, Len(sps[1])))

\* lines 421-426: solve() once the events are parsed
solve_parsed(pp, evs, r) ==
    IF r.err # "none" THEN [blank_run EXCEPT !.err = r.err]
    ELSE IF r.notes = <<>> THEN blank_run
    ELSE solve_notes(pp, evs, r.notes,
                     [k \in 1..Len(r.notes) |->
                         states_for_pitch(pp, r.notes[k].pitch_midi)])

\* solve(evs), lines 420-577, as one step: the values its locals hold when it
\* returns or raises
solve_run(pp, evs) == solve_parsed(pp, evs, parse_events(evs, 1))

\* engine.py line 40: res = solver.solve(tuple_events), the call as one step
Solve ==
    /\ pc = "parse"
    /\ \E r \in {solve_run(p, events)} :
          /\ notes' = r.notes
          /\ states_per_note' = r.states_per_note
          /\ i' = r.i
          /\ j' = r.j
          /\ dp_prev' = r.dp_prev
          /\ dp_cur' = r.dp_cur
          /\ back_cur' = r.back_cur
          /\ backptr' = r.backptr
          /\ total_cost' = r.total_cost
          /\ path_keys' = r.path_keys
          /\ result' = r.result
          /\ IF r.err # "none"
             THEN pc' = "failed" /\ err' = r.err /\ err_note' = r.err_note
             ELSE pc' = "flatten" /\ UNCHANGED <<err, err_note>>
    /\ UNCHANGED <<score_vars, name_vars>>
    /\ UNCHANGED <<payload, p, in_events, events, flattened>>

\* compute_fingering with the call of solve() as a single step
NextCall ==
    \/ Convert
    \/ Solve
    \/ Flatten

\* api_finger (app.py lines 77-83) with the call of solve() as a single step
NextApp ==
    \/ Coerce
    \/ Convert
    \/ Solve
    \/ Flatten

\* musicxml_parser.py line 157: note_name = _pitch_to_note(step, alter, octave)
PitchToNote ==
    /\ pc = "pitch"
    /\ note_name' = <<pitch_to_note(pitch_el.step, pitch_el.alter, pitch_el.octave)>>
    /\ pc' = "name"
    /\ UNCHANGED <<pitch_el, midi_solver, midi_utils>>
    /\ UNCHANGED <<score_vars, solver_vars>>

\* violin_solver.py line 184: midi = note_to_midi(name)
SolverMidi ==
    /\ pc = "name"
    /\ midi_solver = <<>>
    /\ IF NoteFormatOk(note_name[1])
       THEN midi_solver' = <<note_to_midi(note_name[1])>> /\ UNCHANGED <<pc, err>>
       ELSE pc' = "failed" /\ err' = "InvalidNote" /\ UNCHANGED midi_solver
    /\ UNCHANGED <<pitch_el, note_name, midi_utils>>
    /\ UNCHANGED <<score_vars, payload, p, in_events, err_note, events, notes,
                   states_per_note, i, j, dp_prev, dp_cur, back_cur, backptr, total_cost,
                   path_keys, result, flattened>>

\* utils.note_to_midi(name), utils.py lines 5-17
UtilsMidi ==
    /\ pc = "name"
    /\ midi_utils = <<>>
    /\ IF note_name[1].letter \in Letters
       THEN midi_utils' = <<utils_note_to_midi(note_name[1])>> /\ UNCHANGED <<pc, err>>
       ELSE pc' = "failed" /\ err' = "KeyError" /\ UNCHANGED midi_utils
    /\ UNCHANGED <<pitch_el, note_name, midi_solver>>
    /\ UNCHANGED <<score_vars, payload, p, in_events, err_note, events, notes,
                   states_per_note, i, j, dp_prev, dp_cur, back_cur, backptr, total_cost,
                   path_keys, result, flattened>>

\* A pitch named by the score parser and converted by both note_to_midi
NextNames ==
    \/ PitchToNote
    \/ SolverMidi
    \/ UtilsMidi

\* An item of the part: a <measure> with its divisions (0 when it declares
\* none), or one of its <note> elements.  dur is <<>> for a note without a
\* usable <duration>, tie_types the set of the type values of its <tie> and
\* <tied> children, pitch NoPitch for a note without a usable <pitch>.
MeasureItem(div) == [kind |-> "measure", div |-> div]

NoteItem(grace, chord, dur, rest, tie_types, pitch) ==
    [kind |-> "note", grace |-> grace, chord |-> chord, dur |-> dur, rest |-> rest,
     tie_types |-> tie_types, pitch |-> pitch]

\* _get_divisions(root) or 1 (lines 36-46, 83): the first divisions declared
\* anywhere in the document
RECURSIVE root_divisions(_, _)
root_divisions(items, k) ==
    IF k > Len(items) THEN 1
    ELSE IF items[k].kind = "measure" /\ items[k].div # 0 THEN items[k].div
    ELSE root_divisions(items, k + 1)

\* lines 90-93: the loop enters a measure
EnterMeasure ==
    /\ pc = "part"
    /\ el <= Len(part)
    /\ part[el].kind = "measure"
    /\ divisions' = IF part[el].div # 0 THEN part[el].div ELSE divisions
    /\ el' = el + 1
    /\ UNCHANGED <<part, tie_active, tie_note, tie_beats_accum, part_events>>
    /\ UNCHANGED <<pc, name_vars, solver_vars>>

\* the tie variables and the event list take these values
TieBecomes(active, note, accum, evs) ==
    /\ tie_active' = active
    /\ tie_note' = note
    /\ tie_beats_accum' = accum
    /\ part_events' = evs

\* lines 95-180: one iteration of the loop over the notes of a measure
ParseNote ==
    /\ pc = "part"
    /\ el <= Len(part)
    /\ part[el].kind = "note"
    /\ LET note_el == part[el]
           beats == (note_el.dur[1] * 1000) \div divisions
           tie_types == note_el.tie_types
           name == pitch_to_note(note_el.pitch.step, note_el.pitch.alter,
                                 note_el.pitch.octave)
           tied == Event("N", tie_beats_accum, tie_note[1])
       IN IF note_el.grace \/ note_el.chord \/ note_el.dur = <<>>
          THEN UNCHANGED <<tie_active, tie_note, tie_beats_accum, part_events>>
          ELSE IF note_el.rest
          THEN IF tie_active
               THEN TieBecomes(FALSE, <<>>, 0,
                               part_events \o <<tied, Event("R", beats, NoNote)>>)
               ELSE TieBecomes(tie_active, tie_note, tie_beats_accum,
                               Append(part_events, Event("R", beats, NoNote)))
          ELSE IF note_el.pitch = NoPitch
          THEN UNCHANGED <<tie_active, tie_note, tie_beats_accum, part_events>>
          ELSE IF "start" \in tie_types /\ "stop" \in tie_types
          THEN TieBecomes(tie_active, tie_note, tie_beats_accum,
                          Append(part_events, Event("N", beats, name)))
          ELSE IF "start" \in tie_types
          THEN TieBecomes(TRUE, <<name>>, beats,
                          IF tie_active THEN Append(part_events, tied) ELSE part_events)
          ELSE IF tie_active
          THEN IF "stop" \in tie_types
               THEN TieBecomes(FALSE, <<>>, 0,
                               Append(part_events,
                                      Event("N", tie_beats_accum + beats, tie_note[1])))
               ELSE TieBecomes(tie_active, tie_note, tie_beats_accum + beats, part_events)
          ELSE TieBecomes(tie_active, tie_note, tie_beats_accum,
                          Append(part_events, Event("N", beats, name)))
    /\ el' = el + 1
    /\ UNCHANGED <<part, divisions>>
    /\ UNCHANGED <<pc, name_vars, solver_vars>>

\* FinishPart that drops a tie still open at the end
FinishPartNoFlush ==
    /\ pc = "part"
    /\ el > Len(part)
    /\ pc' = "parsed"
    /\ UNCHANGED <<part, el, divisions, tie_active, tie_note, tie_beats_accum, part_events>>
    /\ UNCHANGED <<name_vars, solver_vars>>

\* lines 182-185: the loops are over
FinishPart ==
    /\ pc = "part"
    /\ el > Len(part)
    /\ part_events' = IF tie_active
                      THEN Append(part_events, Event("N", tie_beats_accum, tie_note[1]))
                      ELSE part_events
    /\ pc' = "parsed"
    /\ UNCHANGED <<part, el, divisions, tie_active, tie_note, tie_beats_accum>>
    /\ UNCHANGED <<name_vars, solver_vars>>

\* _parse_part
NextPart ==
    \/ EnterMeasure
    \/ ParseNote
    \/ FinishPart

\* Request payloads of up to MaxItems items: well-formed items of both forms,
\* and items with a lower-case type, an unknown type, no type, no beats, no
\* note, or of another form
MaxItems == 2

GoodItems ==
    { Item("list", 3, "N", 1000, A3), Item("list", 2, "R", 500, NoNote),
      Item("dict", 0, "N", 1000, A3), Item("dict", 0, "R", 500, NoNote) }

OddItems ==
    { Item("list", 3, "n", 1000, A3),
      Item("list", 3, "X", 1000, A3),
      Item("dict", 0, NoType, 1000, A3),
      Item("dict", 0, "N", NoBeats, A3),
      Item("list", 1, "N", NoBeats, NoNote),
      Item("list", 2, "N", 1000, NoNote),
      Item("dict", 0, "N", 1000, NoNote),
      Item("other", 0, NoType, NoBeats, NoNote) }

InitApp ==
    \E pl \in SeqsUpTo(GoodItems \cup OddItems, MaxItems) :
        StartApp(DefaultParams(80), pl)

SpecApp == InitApp /\ [][NextApp]_vars

\* One note of every natural or sharp name of the octaves 3 to 6, under the
\* default record, the reduced record and a record whose offset tuples repeat
\* a value
RepeatParams(bpm) ==
    [DefaultParams(bpm) EXCEPT !.max_stop_semitones = 12,
                               !.max_anchor = 2,
                               !.finger2_offsets = <<1, 1, 2>>,
                               !.finger3_offsets = <<3>>,
                               !.finger4_offsets = <<4, 5>>]

PitchNames ==
    {Note(l, acc, o) : l \in Letters, acc \in {<<>>, <<"#">>}, o \in 3..6}

InitPitch ==
    \E pp \in {DefaultParams(80), SmallParams(80), RepeatParams(80)} :
        \E n \in PitchNames : Start(pp, <<Event("N", 1000, n)>>)

SpecPitch == InitPitch /\ [][NextCall]_vars

InitScale == \E evs \in ScaleInputs : Start(DefaultParams(80), evs)

SpecScale == InitScale /\ [][NextCall]_vars

-----------------------------------------------------------------------------
(* Paths: what the claims about the emitted fingering are stated over *)

MinOf(S) == CHOOSE x \in S : \A y \in S : x <= y

Done == pc = "done"

\* The DPKeys of a sequence of states, one state per note, with settled and
\* last_o2/3/4 derived by the history-update rule
RECURSIVE KeysOf(_, _)
KeysOf(sts, n) ==
    IF n = 0 THEN <<>>
    ELSE IF n = 1 THEN <<InitialKey(sts[1])>>
    ELSE LET ks == KeysOf(sts, n - 1)
         IN Append(ks, NextKey(ks[n - 1], sts[n]))

\* Sum of the per-note costs and of the transition costs along a sequence of keys
RECURSIVE PathCost(_, _, _, _)
PathCost(pp, ns, keys, n) ==
    IF n = 0 THEN 0
    ELSE IF n = 1 THEN note_cost(pp, keys[1].state)
    ELSE PathCost(pp, ns, keys, n - 1)
         + transition_cost_and_feasible(pp, keys[n - 1], keys[n].state,
                                        ns[n - 1].rest_after_beats)
         + note_cost(pp, keys[n].state)

\* Least cost of completing a path from note k on, after prev_key, by trying
\* every state of every remaining note
RECURSIVE BestFrom(_, _, _, _, _)
BestFrom(pp, ns, sps, k, prev_key) ==
    IF k > Len(ns) THEN 0
    ELSE MinOf({ transition_cost_and_feasible(pp, prev_key, st,
                                              ns[k - 1].rest_after_beats)
                 + note_cost(pp, st)
                 + BestFrom(pp, ns, sps, k + 1, NextKey(prev_key, st))
                 : st \in Range(sps[k]) })

\* Least total over all sequences that pick one enumerated state per note
BruteMin(pp, ns, sps) ==
    MinOf({ note_cost(pp, st) + BestFrom(pp, ns, sps, 2, InitialKey(st))
            : st \in Range(sps[1]) })

\* The state and the key a flattened note of the output stands for
EmittedState(f) ==
    State(f.string_index, f.anchor_semitones, HandShape(f.o2, f.o3, f.o4), f.finger,
          f.stop_semitones, f.pitch_midi)

EmittedKey(f) ==
    DPKey(EmittedState(f), f.settled_since_last_shift, f.last_o2_used, f.last_o3_used,
          f.last_o4_used)

\* The notes of the flattened output, in order
OutNotes == SelectSeq(flattened, LAMBDA f : f.type = "N")

EmittedStates == [k \in 1..Len(OutNotes) |-> EmittedState(OutNotes[k])]

EmittedKeys == [k \in 1..Len(OutNotes) |-> EmittedKey(OutNotes[k])]

AnchorChangedAt(k) ==
    k > 1 /\ OutNotes[k].anchor_semitones # OutNotes[k - 1].anchor_semitones

-----------------------------------------------------------------------------
(* Claims *)

\* C1: when solve() has returned for an input with notes, total_cost is the
\* least sum of note and transition costs over all sequences of one enumerated
\* state per note (history bits derived by the update rule), and replacing the
\* emitted state of any one note by another enumerated state of that note,
\* history bits re-derived, gives a total that is not lower.
C1_Optimal ==
    (Done /\ notes # <<>>) =>
        /\ result.total_cost = BruteMin(p, notes, states_per_note)
        /\ \A k \in 1..Len(notes) : \A st \in Range(states_per_note[k]) :
              LET sub == [EmittedStates EXCEPT ![k] = st]
              IN PathCost(p, notes, KeysOf(sub, Len(notes)), Len(notes))
                    >= result.total_cost

\* C1 witness: a three-note input solved with an anchor shift on the emitted
\* path, where some single-note substitution is strictly worse
C1_Witness ==
    /\ Done
    /\ Len(notes) = 3
    /\ Len(OutNotes) = 3
    /\ \E k \in 2..3 : AnchorChangedAt(k)
    /\ \E k \in 1..3 : \E st \in Range(states_per_note[k]) :
          PathCost(p, notes, KeysOf([EmittedStates EXCEPT ![k] = st], 3), 3)
             > result.total_cost

\* C2: total_cost is the sum of the note cost of every emitted state and, for
\* every adjacent pair of emitted notes, the transition cost from the previous
\* emitted key (state, settled_since_last_shift, last_o2/3/4_used) to the
\* current emitted state with the rest after the previous note.
C2_TotalIsPathSum ==
    Done => result.total_cost = PathCost(p, notes, EmittedKeys, Len(OutNotes))

\* C2 witness: a solved input of three notes with a non-zero total
C2_Witness ==
    /\ Done
    /\ Len(OutNotes) = 3
    /\ result.total_cost # 0
    /\ \E k \in 2..3 : OutNotes[k].last_o2_used # -1 /\ OutNotes[k].finger # 2

\* The N events of the input, in order
InNotes == SelectSeq(in_events, LAMBDA e : Upper(e.type) = "N")

\* A valid input: every item is an N with a well-formed, playable note name or an R
ValidInput ==
    \A k \in 1..Len(in_events) :
        \/ Upper(in_events[k].type) = "R"
        \/ /\ Upper(in_events[k].type) = "N"
           /\ in_events[k].note # NoNote
           /\ NoteFormatOk(in_events[k].note)
           /\ states_for_pitch(p, note_to_midi(in_events[k].note)) # <<>>

\* C3: a valid input is answered, and the N items of the flattened output are
\* as many as the N events of the input and carry, position by position, the
\* MIDI pitch note_to_midi gives for the input note name.
C3_NotesPreserved ==
    /\ (pc = "failed") => ~ValidInput
    /\ (Done /\ ValidInput) =>
          /\ Len(OutNotes) = Len(InNotes)
          /\ \A k \in 1..Len(OutNotes) :
                OutNotes[k].pitch_midi = note_to_midi(InNotes[k].note)

\* C3 witness: an answered input with a rest before its first note and two
\* notes of different pitch
C3_Witness ==
    /\ Done
    /\ Len(in_events) = 3
    /\ Upper(in_events[1].type) = "R"
    /\ Len(OutNotes) = 2
    /\ OutNotes[1].pitch_midi # OutNotes[2].pitch_midi

\* C4 (as claimed): the output has one item per input event, in input order,
\* with the same type and the same beats, also for an input of rests only.
C4_OneItemPerEvent ==
    Done =>
        /\ Len(flattened) = Len(in_events)
        /\ \A k \in 1..Len(flattened) :
              /\ flattened[k].type = Upper(in_events[k].type)
              /\ flattened[k].duration_beats = in_events[k].beats

\* C5: every emitted note is a well-formed State within the parameter bounds.
C5_WellFormed ==
    Done =>
        \A k \in 1..Len(OutNotes) :
            LET f == OutNotes[k]
                d == f.stop_semitones - f.anchor_semitones
            IN /\ f.string_index \in 0..3
               /\ f.pitch_midi = OPEN_MIDIS[f.string_index + 1] + f.stop_semitones
               /\ 0 <= f.stop_semitones /\ f.stop_semitones <= p.max_stop_semitones
               /\ 0 <= f.anchor_semitones /\ f.anchor_semitones <= p.max_anchor
               /\ f.finger \in 0..4
               /\ (f.finger = 0 => f.stop_semitones = 0)
               /\ (f.finger = 1 => f.anchor_semitones = f.stop_semitones)
               /\ (f.finger = 2 => d = f.o2)
               /\ (f.finger = 3 => d = f.o3)
               /\ (f.finger = 4 => d = f.o4)

\* C5 witness: an output that holds an open string and a note of finger 2
C5_Witness ==
    /\ Done
    /\ \E k \in 1..Len(OutNotes) : OutNotes[k].finger = 0
    /\ \E k \in 1..Len(OutNotes) : OutNotes[k].finger = 2

\* Notes j <= k played with finger X with the anchor unchanged from j to k
SameAnchorUses(X, k) ==
    { m \in 1..k : /\ OutNotes[m].finger = X
                   /\ \A n \in (m + 1)..k : ~AnchorChangedAt(n) }

MaxOf(S) == CHOOSE x \in S : \A y \in S : x >= y

OffsetOf(f, X) == IF X = 2 THEN f.o2 ELSE IF X = 3 THEN f.o3 ELSE f.o4

LastUsedOf(f, X) ==
    IF X = 2 THEN f.last_o2_used ELSE IF X = 3 THEN f.last_o3_used ELSE f.last_o4_used

\* C6: along the emitted path last_oX_used is the offset oX of the shape of the
\* most recent note played with finger X since which the anchor did not change,
\* and -1 when there is no such note.
C6_LastOffsets ==
    Done =>
        \A k \in 1..Len(OutNotes) : \A X \in {2, 3, 4} :
            LET uses == SameAnchorUses(X, k)
            IN LastUsedOf(OutNotes[k], X) =
                  IF uses = {} THEN -1 ELSE OffsetOf(OutNotes[MaxOf(uses)], X)

\* C6 witness: an output in which an anchor change clears a recorded offset and
\* in which a note inherits the offset of a finger it does not use
C6_Witness ==
    /\ Done
    /\ \E k \in 2..Len(OutNotes) : \E X \in {2, 3, 4} :
          /\ AnchorChangedAt(k)
          /\ LastUsedOf(OutNotes[k - 1], X) # -1
          /\ LastUsedOf(OutNotes[k], X) = -1
    /\ \E k \in 2..Len(OutNotes) : \E X \in {2, 3, 4} :
          /\ ~AnchorChangedAt(k)
          /\ OutNotes[k].finger # X
          /\ LastUsedOf(OutNotes[k], X) # -1

IsAnchorItem(f) == f.finger = 1 /\ f.stop_semitones = f.anchor_semitones

\* The most recent anchor change at or before note k (note 1 when there is none)
SegmentStart(k) == MaxOf({m \in 1..k : m = 1 \/ AnchorChangedAt(m)})

\* C7: along the emitted path settled_since_last_shift of a note is true exactly
\* when an anchor note lies between the most recent anchor change (or the first
\* note) and that note, both included.
C7_Settled ==
    Done =>
        \A k \in 1..Len(OutNotes) :
            OutNotes[k].settled_since_last_shift
                <=> \E m \in SegmentStart(k)..k : IsAnchorItem(OutNotes[m])

\* C7 witness: a settled note followed by an anchor change to a note that is
\* not an anchor note, hence unsettled
C7_Witness ==
    /\ Done
    /\ \E k \in 2..Len(OutNotes) :
          /\ AnchorChangedAt(k)
          /\ OutNotes[k - 1].settled_since_last_shift
          /\ ~OutNotes[k].settled_since_last_shift

\* The first and second note of the flattened output
IsOpenA(f) == f.string = "A" /\ f.finger = 0 /\ f.stop_semitones = 0

\* C8 (as claimed): for the single note A4 with the default parameters the
\* fingering is the open A string and total_cost is 0.1.
C8_A4AloneOpen ==
    (Done /\ in_events = A4Alone) =>
        /\ Len(OutNotes) = 1
        /\ IsOpenA(OutNotes[1])
        /\ result.total_cost = 100

\* C9 (as claimed): for A4 twice with the default parameters both notes are
\* open strings and total_cost is 2 * 0.1 + 0.
C9_RepeatedA4Open ==
    (Done /\ in_events = RepeatedA4) =>
        /\ Len(OutNotes) = 2
        /\ IsOpenA(OutNotes[1])
        /\ IsOpenA(OutNotes[2])
        /\ result.total_cost = 2 * 100 + 0

\* C10: with the default parameters at 80 BPM, C4, a rest of 5 beats, C5 costs
\* strictly less than C4, a rest of 0.5 beats, C5.
C10_LongRestCheaper ==
    (Done /\ in_events = LongRest /\ p = DefaultParams(80)) =>
        result.total_cost < solve_total_cost(p, ConvertEvents(ShortRest, 1).events)

\* C10 witness: the long-rest input answered with an anchor shift after the rest
C10_Witness ==
    /\ Done
    /\ in_events = LongRest
    /\ p = DefaultParams(80)
    /\ Len(OutNotes) = 2
    /\ AnchorChangedAt(2)

\* Rest lengths of the inputs, in 1/1000 beat
RestBeats == {500, 5000}

\* Positions of the R events of the solver input that follow some N event
RestsAfterNote ==
    {k \in 1..Len(events) :
        /\ events[k][1] = "R"
        /\ \E m \in 1..(k - 1) : events[m][1] = "N"}

\* The solver input with the rest at position k lasting b
WithRest(evs, k, b) == [evs EXCEPT ![k] = <<"R", b>>]

\* C11: with the default costs, making one rest that follows a note longer,
\* every other event unchanged, never gives a larger total_cost; this includes
\* taking the rest after a note from below long_rest_threshold_sec to above it.
C11_LongerRestNotDearer ==
    (Done /\ notes # <<>>) =>
        \A k \in RestsAfterNote : \A b \in RestBeats :
            b > events[k][2] =>
                solve_total_cost(p, WithRest(events, k, b)) <= result.total_cost

\* C11 witness: an answered input whose rest after a note is below the
\* threshold, and for which the longer rest is strictly cheaper
C11_Witness ==
    /\ Done
    /\ notes # <<>>
    /\ \E k \in RestsAfterNote : \E b \in RestBeats :
          /\ b > events[k][2]
          /\ shift_mult(p, events[k][2]) = 100
          /\ shift_mult(p, b) < 100
          /\ solve_total_cost(p, WithRest(events, k, b)) < result.total_cost

\* C12: for the C major scale C4 .. C5, one beat each, at 80 BPM with the
\* default parameters, every note of the returned fingering has the same
\* anchor_semitones: no anchor shift between consecutive notes.
C12_ScaleNoShift ==
    (Done /\ in_events = CMajorScale /\ p = DefaultParams(80)) =>
        /\ Len(OutNotes) = 8
        /\ \A k \in 2..8 : ~AnchorChangedAt(k)

\* C12 witness: the scale answered, rising over more than one string
C12_Witness ==
    /\ Done
    /\ in_events = CMajorScale
    /\ p = DefaultParams(80)
    /\ Len(OutNotes) = 8
    /\ OutNotes[1].string_index < OutNotes[8].string_index

\* Positions of the parsed notes whose state enumeration is empty
UnplayableNotes ==
    {k \in 1..Len(notes) : states_for_pitch(p, notes[k].pitch_midi) = <<>>}

\* C13: once solve() has parsed an input in which some note, at any position,
\* has an empty state enumeration, it gets no further than the enumeration: it
\* builds no DP layer and returns no total_cost, no fingering and no output,
\* and when it has failed the error is NoPlayableState and names the first
\* such note.
C13_UnplayableFails ==
    UnplayableNotes # {} =>
        /\ pc \in {"enumerate", "failed"}
        /\ states_per_note = <<>>
        /\ dp_prev = EmptyDict
        /\ backptr = <<>>
        /\ total_cost = 0
        /\ path_keys = <<>>
        /\ result = NoResult
        /\ flattened = <<>>
        /\ pc = "failed" =>
              /\ err = "NoPlayableState"
              /\ err_note = <<notes[MinOf(UnplayableNotes)]>>

\* C13 witness: solve() has failed on three notes of which the first is
\* playable and a later one is not
C13_Witness ==
    /\ pc = "failed"
    /\ err = "NoPlayableState"
    /\ Len(notes) = 3
    /\ 1 \notin UnplayableNotes
    /\ UnplayableNotes # {}

\* C14: when every note of an input with notes has a state, every DP layer
\* holds a key, during and after its relaxation, and solve() does not fail with
\* NoFeasiblePath, for every value of the shift speed, the crossing times and
\* the slack.
C14_NoEmptyLayer ==
    /\ err # "NoFeasiblePath"
    /\ pc \in {"iterate", "relax", "output"} => dp_prev.order # <<>>
    /\ (pc = "relax" /\ j > 1) => dp_cur.order # <<>>
    /\ pc \in {"iterate", "output"} =>
          \A k \in 1..Len(backptr) : backptr[k].order # <<>>
    /\ (pc = "failed" /\ notes # <<>>) => err = "NoPlayableState"

\* C14 witness: an answered input with a transition on the emitted path that
\* needs more time than avail_sec plus the slack
C14_Witness ==
    /\ Done
    /\ \E k \in 2..Len(OutNotes) :
          required_sec(p, EmittedKeys[k - 1], EmittedStates[k],
                       notes[k - 1].rest_after_beats) > avail_sec + p.time_slack_sec

\* The fields an item of the payload carries
HasType(item) ==
    \/ item.form = "list" /\ item.len >= 1 /\ item.type # NoType
    \/ item.form = "dict" /\ item.type # NoType

HasBeats(item) ==
    \/ item.form = "list" /\ item.len >= 2 /\ item.beats # NoBeats
    \/ item.form = "dict" /\ item.beats # NoBeats

HasNote(item) ==
    \/ item.form = "list" /\ item.len >= 3 /\ item.note # NoNote
    \/ item.form = "dict" /\ item.note # NoNote

\* An item the normalisation has to reject: its type is not exactly N or R, or
\* it has no beats, or it is an N without a note
MustReject(item) ==
    \/ ~HasType(item)
    \/ item.type \notin {"N", "R"}
    \/ ~HasBeats(item)
    \/ item.type = "N" /\ ~HasNote(item)

\* C15 (as claimed): a payload whose items are all well formed, in the list
\* form or the object form, is not rejected and both forms give the same
\* Event; a payload with an item whose type is not exactly N or R, or without
\* beats, or an N without a note, is rejected with an error and no fingering.
C15_Normalises ==
    /\ (pc = "failed") => \E k \in 1..Len(payload) : MustReject(payload[k])
    /\ (pc \notin {"coerce", "failed"}) =>
          /\ Len(in_events) = Len(payload)
          /\ \A k \in 1..Len(payload) :
                in_events[k] = Event(payload[k].type, payload[k].beats,
                                     IF HasNote(payload[k]) THEN payload[k].note
                                     ELSE NoNote)
    /\ (\E k \in 1..Len(payload) : MustReject(payload[k])) =>
          /\ pc \in {"coerce", "convert", "failed"}
          /\ result = NoResult
          /\ flattened = <<>>

\* The State invariants of the data model, for a state of the given pitch
StateInvariant(pp, st) ==
    /\ st.string_idx \in 0..3
    /\ 0 <= st.stop /\ st.stop <= pp.max_stop_semitones
    /\ st.pitch_midi = OPEN_MIDIS[st.string_idx + 1] + st.stop
    /\ st.shape \in Range(Shapes(pp))
    /\ st.finger \in 0..4
    /\ st.finger = 0 => st.stop = 0 /\ st.anchor \in 0..pp.max_anchor
    /\ st.finger = 1 => st.anchor = st.stop /\ st.anchor \in 1..pp.max_anchor
    /\ st.finger \in {2, 3, 4} =>
          /\ st.anchor = st.stop - offset_for_finger(st.shape, st.finger)
          /\ st.anchor \in 1..pp.max_anchor

\* Every state of the pitch that satisfies them
ValidStates(pp, pitch_midi) ==
    {st \in {State(s_idx, anchor, shape, finger,
                   pitch_midi - OPEN_MIDIS[s_idx + 1], pitch_midi) :
                s_idx \in 0..3, anchor \in 0..pp.max_anchor,
                shape \in Range(Shapes(pp)), finger \in 0..4} :
        StateInvariant(pp, st)}

\* C16: for every note the enumeration of its pitch holds exactly the states
\* that satisfy the State invariants, each (string_idx, anchor, shape, finger)
\* once; open-string states occur only on a string whose open pitch is the
\* pitch, once for every shape and every anchor in 0..max_anchor; and the
\* enumeration is what solve() stores for the note.
C16_ExactStates ==
    \A k \in 1..Len(notes) :
        LET pitch == notes[k].pitch_midi
            sts == states_for_pitch(p, pitch)
        IN /\ Range(sts) = ValidStates(p, pitch)
           /\ \A m, n \in 1..Len(sts) : SeenKey(sts[m]) = SeenKey(sts[n]) => m = n
           /\ \A m \in 1..Len(sts) :
                 sts[m].finger = 0 => pitch = OPEN_MIDIS[sts[m].string_idx + 1]
           /\ \A s_idx \in 0..3 : \A shape \in Range(Shapes(p)) :
                 \A anchor \in 0..p.max_anchor :
                    pitch = OPEN_MIDIS[s_idx + 1] =>
                       Cardinality({m \in 1..Len(sts) :
                                       sts[m] = State(s_idx, anchor, shape, 0, 0, pitch)})
                          = 1
           /\ states_per_note # <<>> => states_per_note[k] = sts

\* C16 witness: an enumeration stored by solve() that holds open-string states
\* and fingered states, under a record in which two shapes coincide
C16_Witness ==
    /\ Done
    /\ Len(states_per_note) = 1
    /\ \E m \in 1..Len(states_per_note[1]) : states_per_note[1][m].finger = 0
    /\ \E m \in 1..Len(states_per_note[1]) : states_per_note[1][m].finger = 4
    /\ \E a, b \in 1..Len(Shapes(p)) : a # b /\ Shapes(p)[a] = Shapes(p)[b]

\* The transition cost without its string-crossing component
CostBesideCrossing(pp, prev_key, cur, rest_after_prev_beats) ==
    shape_change_cost(pp, prev_key.state, cur)
    + retarget_cost(pp, prev_key, cur)
    + finger_repeat_cost(pp, prev_key.state, cur)
    + anchor_shift_cost(pp, prev_key, cur, rest_after_prev_beats)

\* C17 (as claimed): for two consecutive emitted notes on the same string the
\* string-crossing component of the transition cost is zero, so that the
\* transition costs what its other components add up to.
C17_SameStringFree ==
    Done =>
        \A k \in 2..Len(OutNotes) :
            OutNotes[k].string_index = OutNotes[k - 1].string_index =>
                /\ string_cross_cost(p, 0) = 0
                /\ transition_cost_and_feasible(p, EmittedKeys[k - 1], EmittedStates[k],
                                                notes[k - 1].rest_after_beats)
                      = CostBesideCrossing(p, EmittedKeys[k - 1], EmittedStates[k],
                                           notes[k - 1].rest_after_beats)

\* A transition that keeps finger, anchor, shape and stop and changes string
SamePlaceOtherString(prev, cur) ==
    /\ prev.string_idx # cur.string_idx
    /\ prev.anchor = cur.anchor
    /\ prev.shape = cur.shape
    /\ prev.stop = cur.stop

\* C18: for every transition the relaxation of a prev_key evaluates, from a
\* state of a non-open finger to a state of the same finger: when anchor, shape
\* and stop are the same and the string differs, the finger-repetition component
\* is same_finger_repeat_cross_string_same_place_penalty; otherwise, when the
\* pitch differs, it is same_finger_repeat_penalty.
C18_RepeatPenalty ==
    (pc = "relax" /\ j <= Len(dp_prev.order)) =>
        LET prev == dp_prev.order[j].state
        IN \A cur \in Range(states_per_note[i + 1]) :
              (prev.finger # 0 /\ prev.finger = cur.finger) =>
                  /\ SamePlaceOtherString(prev, cur) =>
                        finger_repeat_cost(p, prev, cur)
                           = p.same_finger_repeat_cross_string_same_place_penalty
                  /\ (~SamePlaceOtherString(prev, cur)
                         /\ prev.pitch_midi # cur.pitch_midi) =>
                        finger_repeat_cost(p, prev, cur) = p.same_finger_repeat_penalty

\* C18 witness: a relaxation whose candidates hold a same-place transition to
\* another string and a same-finger transition to another place
C18_Witness ==
    /\ pc = "relax"
    /\ j <= Len(dp_prev.order)
    /\ dp_prev.order[j].state.finger # 0
    /\ \E cur \in Range(states_per_note[i + 1]) :
          /\ cur.finger = dp_prev.order[j].state.finger
          /\ SamePlaceOtherString(dp_prev.order[j].state, cur)
    /\ \E cur \in Range(states_per_note[i + 1]) :
          /\ cur.finger = dp_prev.order[j].state.finger
          /\ ~SamePlaceOtherString(dp_prev.order[j].state, cur)
          /\ cur.pitch_midi # dp_prev.order[j].state.pitch_midi

\* The total of the candidate that prev_key offers for cur_st (line 500)
CandidateTotal(prev_key, cur_st) ==
    dp_prev.val[prev_key]
    + transition_cost_and_feasible(p, prev_key, cur_st, notes[i].rest_after_beats)
    + note_cost(p, cur_st)

\* The candidates of the prev_key in turn that reach key
CandidatesFor(key) ==
    {cur_st \in Range(states_per_note[i + 1]) : NextKey(dp_prev.order[j], cur_st) = key}

\* C19: in every step that relaxes a layer by one prev_key, a key already
\* stored stays stored and its cost does not rise; its cost and predecessor
\* change only when a candidate of the step is strictly cheaper than the stored
\* cost, and then to that candidate's total and to the prev_key of the step; a
\* candidate of equal cost leaves both as they were.
C19_StrictRelax ==
    [][(pc = "relax" /\ pc' = "relax") =>
          \A key \in DOMAIN dp_cur.val :
              /\ key \in DOMAIN dp_cur'.val
              /\ key \in DOMAIN back_cur'.val
              /\ dp_cur'.val[key] <= dp_cur.val[key]
              /\ IF \E cur_st \in CandidatesFor(key) :
                       CandidateTotal(dp_prev.order[j], cur_st) < dp_cur.val[key]
                 THEN /\ dp_cur'.val[key] < dp_cur.val[key]
                      /\ \E cur_st \in CandidatesFor(key) :
                            dp_cur'.val[key] = CandidateTotal(dp_prev.order[j], cur_st)
                      /\ back_cur'.val[key] = <<dp_prev.order[j]>>
                 ELSE /\ dp_cur'.val[key] = dp_cur.val[key]
                      /\ back_cur'.val[key] = back_cur.val[key]]_vars

\* C19 witness: a layer in relaxation in which a stored key was offered a
\* candidate of equal cost by a later prev_key and kept its first predecessor,
\* and in which another key was improved by a later prev_key
C19_Witness ==
    /\ pc = "relax"
    /\ \E key \in DOMAIN dp_cur.val : \E m, n \in 1..(j - 1) :
          /\ m < n
          /\ back_cur.val[key] = <<dp_prev.order[m]>>
          /\ \E cur_st \in Range(states_per_note[i + 1]) :
                /\ NextKey(dp_prev.order[n], cur_st) = key
                /\ CandidateTotal(dp_prev.order[n], cur_st) = dp_cur.val[key]
    /\ \E key \in DOMAIN dp_cur.val : \E m, n \in 1..(j - 1) :
          /\ m < n
          /\ back_cur.val[key] = <<dp_prev.order[n]>>
          /\ \E cur_st \in Range(states_per_note[i + 1]) :
                NextKey(dp_prev.order[m], cur_st) = key

\* 1-based positions of the N events of the list handed to the solver
NotePositions == {k \in 1..Len(events) : events[k][1] = "N"}

\* position of the first N event after position k, or one past the end
NextNoteAfter(k) ==
    IF \E n \in NotePositions : n > k
    THEN CHOOSE n \in NotePositions : n > k /\ \A t \in NotePositions : t > k => n <= t
    ELSE Len(events) + 1

\* sum of the beats of the events at the positions in S
RECURSIVE BeatsAt(_)
BeatsAt(S) ==
    IF S = {} THEN 0
    ELSE LET k == CHOOSE x \in S : TRUE IN events[k][2] + BeatsAt(S \ {k})

\* sum of rest_after_beats over the first m note records
RECURSIVE RestAfterTotal(_)
RestAfterTotal(m) ==
    IF m = 0 THEN 0 ELSE notes[m].rest_after_beats + RestAfterTotal(m - 1)

\* the parse of the event list has succeeded and notes holds its outcome
Parsed ==
    /\ pc \notin {"coerce", "convert", "parse"}
    /\ pc = "failed" => err \in {"NoPlayableState", "NoFeasiblePath"}

\* C20: after a successful parse there is one note record per N event, in
\* input order, with event_index the 0-based position of its event; its
\* rest_after_beats is the sum of the beats of the R events between it and the
\* next N event (or the end), gap_beats is duration_beats + rest_after_beats,
\* and the rests before the first N event are counted in no note's
\* rest_after_beats.
C20_ParseEvents ==
    Parsed =>
        /\ Len(notes) = Cardinality(NotePositions)
        /\ {notes[m].event_index + 1 : m \in 1..Len(notes)} = NotePositions
        /\ \A m, n \in 1..Len(notes) : m < n => notes[m].event_index < notes[n].event_index
        /\ \A m \in 1..Len(notes) :
              LET k == notes[m].event_index + 1
                  run == (k + 1)..(NextNoteAfter(k) - 1)
              IN /\ \A r \in run : events[r][1] = "R"
                 /\ notes[m].note_name = events[k][3]
                 /\ notes[m].duration_beats = events[k][2]
                 /\ notes[m].rest_after_beats = BeatsAt(run)
                 /\ notes[m].gap_beats
                       = notes[m].duration_beats + notes[m].rest_after_beats
        /\ RestAfterTotal(Len(notes))
              = BeatsAt({r \in 1..Len(events) :
                           events[r][1] = "R" /\ \E n \in NotePositions : n < r})

\* C20 witness: a parsed list that opens with a rest, has its note at position
\* two and a rest after it
C20_Witness ==
    /\ Parsed
    /\ Len(events) = 3
    /\ events[1][1] = "R"
    /\ Len(notes) = 1
    /\ notes[1].event_index = 1
    /\ notes[1].rest_after_beats = events[3][2]
    /\ events[3][2] > 0

-----------------------------------------------------------------------------
(* Note names: the <pitch> elements a score can hold, step in either case, *)
(* alter absent or -2..2, around the range of the violin                   *)

Steps == Letters \cup {"b", "c"}

Alters == {<<>>} \cup {<<a>> : a \in (-2)..2}

Octaves == 3..5

\* State at the call _pitch_to_note(step, alter, octave)
StartPitch(step, alter, octave) ==
    /\ pitch_el = [step |-> step, alter |-> alter, octave |-> octave]
    /\ note_name = <<>>
    /\ midi_solver = <<>>
    /\ midi_utils = <<>>
    /\ pc = "pitch"
    /\ NoScore
    /\ payload = <<>>
    /\ p = DefaultParams(80)
    /\ in_events = <<>>
    /\ err = "none"
    /\ err_note = <<>>
    /\ events = <<>>
    /\ notes = <<>>
    /\ states_per_note = <<>>
    /\ i = 0
    /\ j = 0
    /\ dp_prev = EmptyDict
    /\ dp_cur = EmptyDict
    /\ back_cur = EmptyDict
    /\ backptr = <<>>
    /\ total_cost = 0
    /\ path_keys = <<>>
    /\ result = NoResult
    /\ flattened = <<>>

InitNames ==
    \E step \in Steps, alter \in Alters, octave \in Octaves : StartPitch(step, alter, octave)

SpecNames == InitNames /\ [][NextNames]_vars

-----------------------------------------------------------------------------
(* Scores: a first measure followed by up to MaxElements items, which are  *)
(* notes of two pitches with every tie markup, a rest, a grace note, a     *)
(* chord note, a note without duration, a note without pitch, and a        *)
(* measure that changes the divisions                                      *)

MaxElements == 3

Pitch(step, alter, octave) == [step |-> step, alter |-> alter, octave |-> octave]

TieMarkups == SUBSET {"start", "stop"}

PitchedItems ==
    {NoteItem(FALSE, FALSE, <<1>>, FALSE, t, Pitch("C", <<>>, 4)) : t \in TieMarkups}
        \cup {NoteItem(FALSE, FALSE, <<2>>, FALSE, t, Pitch("D", <<>>, 4)) : t \in TieMarkups}

RestItem == NoteItem(FALSE, FALSE, <<4>>, TRUE, {}, NoPitch)

SkippedItems ==
    { NoteItem(TRUE, FALSE, <<1>>, FALSE, {}, Pitch("C", <<>>, 4)),
      NoteItem(FALSE, TRUE, <<1>>, FALSE, {}, Pitch("C", <<>>, 4)),
      NoteItem(FALSE, FALSE, <<>>, FALSE, {}, Pitch("C", <<>>, 4)),
      NoteItem(FALSE, FALSE, <<1>>, FALSE, {}, NoPitch) }

ScoreItems == PitchedItems \cup {RestItem} \cup SkippedItems \cup {MeasureItem(2)}

\* State at the call _parse_part(part_el, root)
StartPart(items) ==
    /\ part = items
    /\ el = 1
    /\ divisions = root_divisions(items, 1)
    /\ tie_active = FALSE
    /\ tie_note = <<>>
    /\ tie_beats_accum = 0
    /\ part_events = <<>>
    /\ pc = "part"
    /\ NoPitchGiven
    /\ payload = <<>>
    /\ p = DefaultParams(80)
    /\ in_events = <<>>
    /\ err = "none"
    /\ err_note = <<>>
    /\ events = <<>>
    /\ notes = <<>>
    /\ states_per_note = <<>>
    /\ i = 0
    /\ j = 0
    /\ dp_prev = EmptyDict
    /\ dp_cur = EmptyDict
    /\ back_cur = EmptyDict
    /\ backptr = <<>>
    /\ total_cost = 0
    /\ path_keys = <<>>
    /\ result = NoResult
    /\ flattened = <<>>

InitPart ==
    \E items \in SeqsUpTo(ScoreItems, MaxElements) :
        StartPart(<<MeasureItem(0)>> \o items)

SpecPart == InitPart /\ [][NextPart]_vars

\* the item at position k is a rest or a pitched note that _parse_part counts:
\* no grace note, no chord note, with a duration, and a rest or with a pitch
CountedAt(k) ==
    /\ part[k].kind = "note"
    /\ ~part[k].grace
    /\ ~part[k].chord
    /\ part[k].dur # <<>>
    /\ part[k].rest \/ part[k].pitch # NoPitch

PitchedAt(k) == CountedAt(k) /\ ~part[k].rest

\* the divisions that apply to the item at position k: those of the last
\* measure up to k that declares any, else those of the document
DivisionsAt(k) ==
    LET declared == {m \in 1..k : part[m].kind = "measure" /\ part[m].div # 0}
    IN IF declared = {} THEN root_divisions(part, 1)
       ELSE part[CHOOSE m \in declared : \A n \in declared : n <= m].div

\* duration / divisions of the item at position k, in 1/1000 beat
BeatsOf(k) == (part[k].dur[1] * 1000) \div DivisionsAt(k)

NameOf(k) == pitch_to_note(part[k].pitch.step, part[k].pitch.alter, part[k].pitch.octave)

\* the positions of the counted items, in score order
Counted == SelectSeq([k \in 1..Len(part) |-> k], LAMBDA k : CountedAt(k))

\* place of a counted item in a chain of tied notes
TieRole(k) ==
    IF part[k].rest THEN "rest"
    ELSE IF part[k].tie_types = {"start"} THEN "first"
    ELSE IF part[k].tie_types = {"start", "stop"} THEN "middle"
    ELSE IF part[k].tie_types = {"stop"} THEN "last"
    ELSE "plain"

\* ps[n] opens a chain of tied notes of one pitch that ps[m] closes
IsChain(ps, n, m) ==
    /\ n < m
    /\ TieRole(ps[n]) = "first"
    /\ TieRole(ps[m]) = "last"
    /\ \A t \in (n + 1)..(m - 1) : TieRole(ps[t]) = "middle"
    /\ \A t \in (n + 1)..m : NameOf(ps[t]) = NameOf(ps[n])

\* from ps[n] on, the counted items are rests, untied notes and whole chains
RECURSIVE WellTied(_, _)
WellTied(ps, n) ==
    IF n > Len(ps) THEN TRUE
    ELSE IF TieRole(ps[n]) \in {"rest", "plain"} THEN WellTied(ps, n + 1)
    ELSE \E m \in (n + 1)..Len(ps) : IsChain(ps, n, m) /\ WellTied(ps, m + 1)

RECURSIVE SumBeats(_, _, _)
SumBeats(ps, n, m) == IF n > m THEN 0 ELSE BeatsOf(ps[n]) + SumBeats(ps, n + 1, m)

\* the post-tie event list of well-tied counted items: a rest as an R event,
\* an untied note as an N event, a chain as one N event of the summed beats
RECURSIVE PostTie(_, _)
PostTie(ps, n) ==
    IF n > Len(ps) THEN <<>>
    ELSE IF TieRole(ps[n]) = "rest"
    THEN <<Event("R", BeatsOf(ps[n]), NoNote)>> \o PostTie(ps, n + 1)
    ELSE IF TieRole(ps[n]) = "plain"
    THEN <<Event("N", BeatsOf(ps[n]), NameOf(ps[n]))>> \o PostTie(ps, n + 1)
    ELSE LET m == CHOOSE t \in (n + 1)..Len(ps) : IsChain(ps, n, t)
         IN <<Event("N", SumBeats(ps, n, m), NameOf(ps[n]))>> \o PostTie(ps, m + 1)

\* C21: when the counted items of the part are rests, untied notes and whole
\* chains of k >= 2 tied notes, the events returned are the post-tie list, in
\* which every chain is exactly one N event of the summed beats.
C21_TiesMerged ==
    (pc = "parsed" /\ WellTied(Counted, 1)) => part_events = PostTie(Counted, 1)

\* sum of the beats of the events of a list
RECURSIVE TotalBeats(_)
TotalBeats(evs) == IF evs = <<>> THEN 0 ELSE evs[1].beats + TotalBeats(Tail(evs))

\* C23: the beats of the events returned by _parse_part add up to the sum of
\* duration / divisions over the counted items of the part, whatever their tie
\* markup.
C23_BeatsConserved ==
    pc = "parsed" => TotalBeats(part_events) = SumBeats(Counted, 1, Len(Counted))

\* C23 witness: a parsed part that opens with a stop never started and ends
\* with a tie never stopped
C23_Witness ==
    /\ pc = "parsed"
    /\ Len(Counted) >= 2
    /\ TieRole(Counted[1]) = "last"
    /\ TieRole(Counted[Len(Counted)]) = "first"
    /\ TotalBeats(part_events) > 0

\* C24: events come out in score order.  While a tie is open, the elements it
\* holds precede the element in turn and their event is not yet emitted; so a
\* step of the loop that emits anything emits the event of the open tie first
\* (with the beats of the element in turn when that element closes the tie), and
\* afterwards the tie is closed or holds the element in turn alone.
C24_ScoreOrder ==
    [][(/\ pc = "part"
        /\ el <= Len(part)
        /\ part[el].kind = "note"
        /\ tie_active
        /\ Len(part_events') > Len(part_events)) =>
            /\ \/ part_events'[Len(part_events) + 1]
                     = Event("N", tie_beats_accum, tie_note[1])
               \/ /\ PitchedAt(el)
                  /\ ~tie_active'
                  /\ part_events'[Len(part_events) + 1]
                        = Event("N", tie_beats_accum + BeatsOf(el), tie_note[1])
            /\ \/ ~tie_active'
               \/ /\ PitchedAt(el)
                  /\ tie_note' = <<NameOf(el)>>
                  /\ tie_beats_accum' = BeatsOf(el)]_vars

\* the item just handled by the loop is a pitched note without tie markup
UntiedDone ==
    /\ pc = "part"
    /\ el > 1
    /\ PitchedAt(el - 1)
    /\ part[el - 1].tie_types = {}

\* C25: a pitched note without tie markup yields an N event of its own, with
\* its own name and its own beats, whatever the tie state before it.
C25_UntiedKept ==
    UntiedDone =>
        /\ part_events # <<>>
        /\ part_events[Len(part_events)] = Event("N", BeatsOf(el - 1), NameOf(el - 1))

\* sharps minus flats of the alter value
AlterOf(alter) == IF alter = <<>> THEN 0 ELSE alter[1]

\* C22: once both conversions of a name made by _pitch_to_note have returned,
\* they hold the same number, 12*(octave+1) + base(letter) + alter.
C22_SameMidi ==
    (midi_solver # <<>> /\ midi_utils # <<>>) =>
        /\ midi_solver = midi_utils
        /\ midi_solver[1] = 12 * (pitch_el.octave + 1)
                              + NOTE_BASE(UpperStep(pitch_el.step))
                              + AlterOf(pitch_el.alter)

\* The function form of solve() and the stepwise run agree on total_cost
SolveAgrees ==
    (Done /\ notes # <<>>) => result.total_cost = solve_total_cost(p, events)

====
